---- MODULE Spec2Model ----
(***************************************************************************)
(* A model of the compilation context of fea-rs                            *)
(* (fea-rs/src/compile/compile_ctx.rs): the walk over the top-level items  *)
(* of a validated feature file, the lookup store and the active feature    *)
(* it drives, the finalization passes and build().                         *)
(*                                                                         *)
(* The input file is not fixed: every action draws the next statement of   *)
(* the file from a small set, so a behaviour of the model is the compile   *)
(* of one (validated) source file.                                         *)
(***************************************************************************)
EXTENDS Integers, Sequences, FiniteSets, TLC

VARIABLES
    errors,               \* CompilationCtx.errors: Vec<Diagnostic>
    features,             \* CompilationCtx.features: FeatureKey -> Vec<LookupId>
    default_lang_systems, \* CompilationCtx.default_lang_systems
    lookups,              \* CompilationCtx.lookups: AllLookups
    lookup_flags,         \* CompilationCtx.lookup_flags: LookupFlagInfo
    active_feature,       \* CompilationCtx.active_feature: Option<ActiveFeature>
    script,               \* CompilationCtx.script: Option<Tag>
    aalt,                 \* CompilationCtx.aalt: Option<AaltFeature>
    required_features,    \* CompilationCtx.required_features
    excluded,             \* feature keys a language statement set with exclude_dflt
    pos,                  \* where the walk is: "top", "feature", "lookup", "done", "built"
    block,                \* the rule node kind seen in the open lookup block (validation)
    defined,              \* lookup block names already used in the file, and where
                          \* each block stands: "top" or "feature"
    panic,                \* message of the assertion that aborted the compile, or ""
    result,               \* what build() returned
    last,                 \* the statement or pass that ran last
    anchor_defs,          \* CompilationCtx.anchor_defs: name -> (AnchorTable, usize)
    cursor,               \* source position the walk has reached
    call,                 \* the helper function called last, its arguments and result
    mark_classes,         \* CompilationCtx.mark_classes: name -> MarkClass members
    gdef,                 \* CompilationCtx.tables.gdef: Option<GdefBuilder>
    mark_attach_class_id, \* CompilationCtx.mark_attach_class_id: GlyphClass -> u16
    mark_filter_sets      \* CompilationCtx.mark_filter_sets: GlyphClass -> FilterSetId

vars == <<errors, features, default_lang_systems, lookups, lookup_flags,
          active_feature, script, aalt, required_features, excluded, pos, block,
          defined, panic, result, last, anchor_defs, cursor, call, mark_classes,
          gdef, mark_attach_class_id, mark_filter_sets>>

(***************************************************************************)
(* Bounds of the model                                                     *)
(***************************************************************************)
MaxLookups == 2      \* lookups allocated in one file (stored + current)
MaxIds == 2          \* ids in one lookup-id list
MaxDiags == 2        \* diagnostics in one compile
MaxRules == 2        \* rules in one lookup
MaxMarked == 1       \* feature keys marked required, or set with exclude_dflt

(***************************************************************************)
(* Tags and small input domains                                            *)
(***************************************************************************)
SCRIPT_DFLT == "DFLT"
LANG_DFLT == "dflt"
AALT == "aalt"
Scripts == {SCRIPT_DFLT, "latn"}
Languages == {LANG_DFLT, "TRK"}
FeatureTags == {"liga"}
LookupNames == {"X"}

\* a processed statement: what it was, its tag, name or kind, and whether a
\* language statement carried exclude_dflt
Stmt(op, arg) == [op |-> op, arg |-> arg, x |-> FALSE, r |-> FALSE, inputs |-> <<>>]

None == <<>>
Some(x) == <<x>>
IsSome(o) == o # <<>>
Unwrap(o) == o[1]

\* LookupId
Gsub(i) == [t |-> "GSUB", i |-> i]
Gpos(i) == [t |-> "GPOS", i |-> i]
Empty == [t |-> "Empty", i |-> 0]

\* LanguageSystem and FeatureKey
LanguageSystem(s, l) == <<s, l>>
ToFeatureKey(sys, tag) == <<sys[1], sys[2], tag>>

\* Diagnostic
DiagError(msg) == [sev |-> "error", msg |-> msg]
DiagWarning(msg) == [sev |-> "warning", msg |-> msg]
IsError(d) == d.sev = "error"

\* LookupFlagInfo
LookupFlagInfoNew(flags, mfs) == [flags |-> flags, mark_filter_set |-> mfs]
ClearedFlags == LookupFlagInfoNew(0, None)

IsGposRule(kind) ==
    kind \in {"GposType1", "GposType2", "GposType3", "GposType4", "GposType5", "GposType6"}


(***************************************************************************)
(* Small sequence helpers                                                  *)
(***************************************************************************)
SeqToSet(s) == {s[i] : i \in 1..Len(s)}

\* the glyphs of a set, ascending (iteration of a BTreeMap's keys)
SortGlyphs(S) ==
    [i \in 1..Cardinality(S) |->
        CHOOSE x \in S : Cardinality({y \in S : y < x}) = i - 1]

RECURSIVE SetToSeq(_)
SetToSeq(S) == IF S = {} THEN <<>>
               ELSE LET x == CHOOSE y \in S : TRUE
                    IN <<x>> \o SetToSeq(S \ {x})

MapGet(f, k, dflt) == IF k \in DOMAIN f THEN f[k] ELSE dflt
MapPut(f, k, v) == [x \in DOMAIN f \cup {k} |-> IF x = k THEN v ELSE f[x]]
EmptyMap == [x \in {} |-> <<>>]

(***************************************************************************)
(* DefaultLanguageSystems (compile/language_system.rs)                     *)
(***************************************************************************)
\* iter(): the declared systems, or DFLT/dflt when the file declares none
DefaultIter(dls) == IF dls = {} THEN {LanguageSystem(SCRIPT_DFLT, LANG_DFLT)} ELSE dls

(***************************************************************************)
(* AllLookups (compile/lookups.rs)                                         *)
(*   current      : Option<SomeLookup>                                     *)
(*   current_name : Option<name> of the open named block                   *)
(*   gsub, gpos   : the two dense stores                                   *)
(*   named        : name -> LookupId                                       *)
(***************************************************************************)
AllLookupsDefault ==
    [current |-> None, current_name |-> None, gsub |-> <<>>, gpos |-> <<>>,
     named |-> EmptyMap]

\* SomeLookup::new(kind, flags, mark_filter_set)
SomeLookupNew(kind, flags) ==
    [kind |-> kind, flags |-> flags.flags, mfs |-> flags.mark_filter_set,
     rules |-> <<>>, name |-> None, refs |-> {}]

HasCurrent(L) == IsSome(L.current)

\* needs_new_lookup(kind): it is handed the kind only
NeedsNewLookup(L, kind) ==
    \/ ~IsSome(L.current)
    \/ Unwrap(L.current).kind # kind

\* push(lookup): store it in its table, the id is its index
PushId(L, lookup) ==
    IF IsGposRule(lookup.kind) THEN Gpos(Len(L.gpos)) ELSE Gsub(Len(L.gsub))

Push(L, lookup) ==
    IF IsGposRule(lookup.kind)
    THEN [L EXCEPT !.gpos = Append(@, lookup)]
    ELSE [L EXCEPT !.gsub = Append(@, lookup)]

\* start_lookup(kind, flags): finishes the current lookup (returning its id)
\* and makes a fresh lookup of this kind, with the flags handed in, current
StartLookup(L, kind, flags) ==
    LET fin == IF IsSome(L.current) THEN Some(PushId(L, Unwrap(L.current))) ELSE None
        L1 == IF IsSome(L.current) THEN Push(L, Unwrap(L.current)) ELSE L
    IN [L |-> [L1 EXCEPT !.current = Some(SomeLookupNew(kind, flags))],
        finished |-> fin]

\* start_named(name): only stashes the name
StartNamed(L, name) == [L EXCEPT !.current_name = Some(name)]

\* finish_current(): Option<(LookupId, Option<name>)>
FinishCurrent(L) ==
    IF IsSome(L.current)
    THEN LET lk == [Unwrap(L.current) EXCEPT !.name = L.current_name]
             id == PushId(L, lk)
             L1 == [Push(L, lk) EXCEPT !.current = None, !.current_name = None]
         IN [L |-> IF IsSome(L.current_name)
                   THEN [L1 EXCEPT !.named = MapPut(@, Unwrap(L.current_name), id)]
                   ELSE L1,
             res |-> Some([id |-> id, name |-> L.current_name])]
    ELSE IF IsSome(L.current_name)
    THEN [L |-> [L EXCEPT !.current_name = None,
                          !.named = MapPut(@, Unwrap(L.current_name), Empty)],
          res |-> Some([id |-> Empty, name |-> L.current_name])]
    ELSE [L |-> L, res |-> None]

\* get_named(name)
GetNamed(L, name) == IF name \in DOMAIN L.named THEN Some(L.named[name]) ELSE None

\* how many lookups the file has allocated so far
NumLookups(L) == Len(L.gsub) + Len(L.gpos) + (IF IsSome(L.current) THEN 1 ELSE 0)

(***************************************************************************)
(* ActiveFeature (compile/features.rs)                                     *)
(*   tag, default_systems (snapshot), current_system: Option, and the      *)
(*   pending additions  lookups : LanguageSystem -> Vec<LookupId>          *)
(***************************************************************************)
ActiveFeatureNew(tag, dls) ==
    [tag |-> tag, default_systems |-> dls, current_system |-> None,
     lookups |-> EmptyMap]

\* add_lookup(id): under the current system, or under every default system
\* while no script or language statement has been seen
AddLookup(af, id) ==
    LET targets == IF IsSome(af.current_system) THEN {Unwrap(af.current_system)}
                   ELSE DefaultIter(af.default_systems)
    IN [af EXCEPT !.lookups =
          [s \in DOMAIN af.lookups \cup targets |->
              IF s \in targets THEN Append(MapGet(af.lookups, s, <<>>), id)
              ELSE af.lookups[s]]]

\* set_system(system, exclude_dflt): switch; a system seen for the first
\* time inherits the pending ids of its script's dflt language (a script
\* those of DFLT/dflt) unless exclude_dflt
SetSystem(af, system, exclude_dflt) ==
    LET parent == IF system[2] = LANG_DFLT THEN LanguageSystem(SCRIPT_DFLT, LANG_DFLT)
                  ELSE LanguageSystem(system[1], LANG_DFLT)
        inherited == IF exclude_dflt THEN <<>> ELSE MapGet(af.lookups, parent, <<>>)
    IN [af EXCEPT !.current_system = Some(system),
                  !.lookups = IF system \in DOMAIN af.lookups THEN @
                              ELSE MapPut(@, system, inherited)]

\* add_to_features(features): flatten the pending additions into the map
AddToFeatures(af, feats) ==
    LET keys == {ToFeatureKey(s, af.tag) : s \in {x \in DOMAIN af.lookups : af.lookups[x] # <<>>}}
    IN [k \in DOMAIN feats \cup keys |->
          IF k \in keys
          THEN MapGet(feats, k, <<>>) \o af.lookups[LanguageSystem(k[1], k[2])]
          ELSE feats[k]]


(***************************************************************************)
(* CompilationCtx (compile/compile_ctx.rs)                                 *)
(***************************************************************************)
\* no helper function has been called
NoCall == [fn |-> "", args |-> <<>>, ret |-> <<>>]

Init ==
    /\ errors = <<>>
    /\ features = EmptyMap
    /\ default_lang_systems = {}
    /\ lookups = AllLookupsDefault
    /\ lookup_flags = ClearedFlags
    /\ active_feature = None
    /\ script = None
    /\ aalt = None
    /\ required_features = {}
    /\ excluded = {}
    /\ pos = "top"
    /\ block = None
    /\ defined = EmptyMap
    /\ panic = ""
    /\ result = None
    /\ last = Stmt("new", "")
    /\ anchor_defs = EmptyMap
    /\ cursor = 0
    /\ call = NoCall
    /\ mark_classes = EmptyMap
    /\ gdef = None
    /\ mark_attach_class_id = EmptyMap
    /\ mark_filter_sets = EmptyMap

Alive == panic = ""

\* every pending list of an active feature stays within the bound
PendingWithin(afopt) ==
    \A af \in SeqToSet(afopt) : \A s \in DOMAIN af.lookups : Len(af.lookups[s]) <= MaxIds

\* error() that puts the diagnostic in front of the list
PushErrorInFront(errs, msg) == <<DiagError(msg)>> \o errs

\* error() and warning()
PushError(errs, msg) == Append(errs, DiagError(msg))
PushWarning(errs, msg) == Append(errs, DiagWarning(msg))

\* add_lookup_to_current_feature_if_present without the test for Empty
AddLookupEvenIfEmpty(afopt, id) ==
    IF IsSome(afopt)
    THEN Some(AddLookup(Unwrap(afopt), id))
    ELSE afopt

\* add_lookup_to_current_feature_if_present(lookup)
AddLookupToCurrentFeatureIfPresent(afopt, id) ==
    IF id # Empty /\ IsSome(afopt)
    THEN Some(AddLookup(Unwrap(afopt), id))
    ELSE afopt

\* the same, for the Option<(id, name)> that finish_current returns
AddFinished(afopt, res) ==
    IF IsSome(res) THEN AddLookupToCurrentFeatureIfPresent(afopt, Unwrap(res).id)
    ELSE afopt

\* add_language_system(language_system)
AddLanguageSystem(s, l) ==
    /\ Alive /\ pos = "top"
    /\ default_lang_systems' = default_lang_systems \cup {LanguageSystem(s, l)}
    /\ UNCHANGED <<anchor_defs, cursor, call, mark_classes,
                   gdef, mark_attach_class_id, mark_filter_sets>>
    /\ last' = Stmt("languagesystem", s)
    /\ UNCHANGED <<errors, features, lookups, lookup_flags, active_feature, script,
                   aalt, required_features, excluded, pos, block, defined, panic, result>>

\* start_feature(feature_name), as add_feature calls it for an ordinary tag
StartFeature(tag) ==
    /\ Alive /\ pos = "top"
    /\ IF HasCurrent(lookups)
       THEN /\ panic' = "no lookup should be active at start of feature"
            /\ UNCHANGED <<active_feature, lookup_flags, pos>>
       ELSE /\ active_feature' = Some(ActiveFeatureNew(tag, default_lang_systems))
            /\ lookup_flags' = ClearedFlags
            /\ pos' = "feature"
            /\ UNCHANGED panic
    /\ UNCHANGED <<anchor_defs, cursor, call, mark_classes,
                   gdef, mark_attach_class_id, mark_filter_sets>>
    /\ last' = Stmt("start_feature", tag)
    /\ UNCHANGED <<errors, features, default_lang_systems, lookups, script, aalt,
                   required_features, excluded, block, defined, result>>

\* end_feature()
EndFeature ==
    /\ Alive /\ pos = "feature"
    /\ LET fc == FinishCurrent(lookups)
           af == AddFinished(active_feature, fc.res)
           feats == AddToFeatures(Unwrap(af), features)
       IN /\ \A k \in DOMAIN feats : Len(feats[k]) <= MaxIds
          /\ IF IsSome(fc.res) /\ IsSome(Unwrap(fc.res).name)
             THEN /\ panic' = "lookup blocks are finished before feature blocks"
                  /\ UNCHANGED <<lookups, features, active_feature, lookup_flags, pos>>
             ELSE /\ lookups' = fc.L
                  /\ features' = feats
                  /\ active_feature' = None
                  /\ lookup_flags' = ClearedFlags
                  /\ pos' = "top"
                  /\ UNCHANGED panic
    /\ UNCHANGED <<anchor_defs, cursor, call, mark_classes,
                   gdef, mark_attach_class_id, mark_filter_sets>>
    /\ last' = Stmt("end_feature", "")
    /\ UNCHANGED <<errors, default_lang_systems, script, aalt, required_features,
                   excluded, block, defined, result>>

\* start_lookup_block(name), at top level or inside a feature
StartLookupBlock(name) ==
    /\ Alive /\ pos \in {"top", "feature"}
    /\ name \notin DOMAIN defined
    /\ LET fc == FinishCurrent(lookups)
           af == AddFinished(active_feature, fc.res)
       IN /\ PendingWithin(af)
          /\ IF IsSome(fc.res) /\ IsSome(Unwrap(fc.res).name)
             THEN /\ panic' = "lookup blocks cannot be nested"
                  /\ UNCHANGED <<lookups, active_feature, lookup_flags, pos, block, defined>>
             ELSE /\ lookups' = StartNamed(fc.L, name)
                  /\ active_feature' = af
                  /\ lookup_flags' = IF ~IsSome(active_feature) THEN ClearedFlags
                                     ELSE lookup_flags
                  /\ pos' = "lookup"
                  /\ block' = None
                  /\ defined' = MapPut(defined, name, pos)
                  /\ UNCHANGED panic
    /\ UNCHANGED <<anchor_defs, cursor, call, mark_classes,
                   gdef, mark_attach_class_id, mark_filter_sets>>
    /\ last' = Stmt("start_lookup_block", name)
    /\ UNCHANGED <<errors, features, default_lang_systems, script, aalt,
                   required_features, excluded, result>>

\* end_lookup_block() that forgets the name but does not finish the lookup
EndLookupBlockKeepCurrent ==
    /\ Alive /\ pos = "lookup"
    /\ lookups' = [lookups EXCEPT !.current_name = None]
    /\ lookup_flags' = IF IsSome(active_feature) THEN lookup_flags ELSE ClearedFlags
    /\ pos' = IF IsSome(active_feature) THEN "feature" ELSE "top"
    /\ block' = None
    /\ UNCHANGED <<anchor_defs, cursor, call, mark_classes,
                   gdef, mark_attach_class_id, mark_filter_sets>>
    /\ last' = Stmt("end_lookup_block", "")
    /\ UNCHANGED <<errors, features, default_lang_systems, active_feature, script, aalt,
                   required_features, excluded, defined, panic, result>>

\* end_lookup_block() that never hands the id to the active feature
EndLookupBlockUnregistered ==
    /\ Alive /\ pos = "lookup"
    /\ lookups' = FinishCurrent(lookups).L
    /\ lookup_flags' = IF IsSome(active_feature) THEN lookup_flags ELSE ClearedFlags
    /\ pos' = IF IsSome(active_feature) THEN "feature" ELSE "top"
    /\ block' = None
    /\ UNCHANGED <<anchor_defs, cursor, call, mark_classes,
                   gdef, mark_attach_class_id, mark_filter_sets>>
    /\ last' = Stmt("end_lookup_block", "")
    /\ UNCHANGED <<errors, features, default_lang_systems, active_feature, script, aalt,
                   required_features, excluded, defined, panic, result>>

\* end_lookup_block()
EndLookupBlock ==
    /\ Alive /\ pos = "lookup"
    /\ LET fc == FinishCurrent(lookups)
           af == IF IsSome(active_feature) THEN AddFinished(active_feature, fc.res)
                 ELSE active_feature
       IN /\ PendingWithin(af)
          /\ lookups' = fc.L
          /\ active_feature' = af
          /\ lookup_flags' = IF IsSome(active_feature) THEN lookup_flags ELSE ClearedFlags
    /\ pos' = IF IsSome(active_feature) THEN "feature" ELSE "top"
    /\ block' = None
    /\ UNCHANGED <<anchor_defs, cursor, call, mark_classes,
                   gdef, mark_attach_class_id, mark_filter_sets>>
    /\ last' = Stmt("end_lookup_block", "")
    /\ UNCHANGED <<errors, features, default_lang_systems, script, aalt,
                   required_features, excluded, defined, panic, result>>


\* set_script_language that hands set_system `true` for exclude_dflt
SetScriptLanguageExcluding(L, afopt, req, s, l, exclude_dflt, required) ==
    LET fc == FinishCurrent(L)
        af == AddFinished(afopt, fc.res)
        system == LanguageSystem(s, l)
        key == ToFeatureKey(system, Unwrap(af).tag)
    IN [L |-> fc.L,
        af |-> Some(SetSystem(Unwrap(af), system, TRUE)),
        req |-> IF required THEN req \cup {key} ELSE req,
        key |-> key]

\* set_script_language that marks the key required whatever the statement says
SetScriptLanguageRequiring(L, afopt, req, s, l, exclude_dflt, required) ==
    LET fc == FinishCurrent(L)
        af == AddFinished(afopt, fc.res)
        system == LanguageSystem(s, l)
        key == ToFeatureKey(system, Unwrap(af).tag)
    IN [L |-> fc.L,
        af |-> Some(SetSystem(Unwrap(af), system, exclude_dflt)),
        req |-> req \cup {key},
        key |-> key]

\* set_script_language(script, language, exclude_dflt, required): what it
\* does to the lookup store, the active feature and the required features
SetScriptLanguage(L, afopt, req, s, l, exclude_dflt, required) ==
    LET fc == FinishCurrent(L)
        af == AddFinished(afopt, fc.res)
        system == LanguageSystem(s, l)
        key == ToFeatureKey(system, Unwrap(af).tag)
    IN [L |-> fc.L,
        af |-> Some(SetSystem(Unwrap(af), system, exclude_dflt)),
        req |-> IF required THEN req \cup {key} ELSE req,
        key |-> key]

\* set_script(stmt)
SetScript(s) ==
    /\ Alive /\ pos = "feature"
    /\ IF Some(s) = script
       THEN UNCHANGED <<script, lookup_flags, lookups, active_feature, required_features>>
       ELSE LET r == SetScriptLanguage(lookups, active_feature, required_features,
                                       s, LANG_DFLT, FALSE, FALSE)
            IN /\ PendingWithin(r.af)
               /\ script' = Some(s)
               /\ lookup_flags' = ClearedFlags
               /\ lookups' = r.L
               /\ active_feature' = r.af
               /\ required_features' = r.req
    /\ UNCHANGED <<anchor_defs, cursor, call, mark_classes,
                   gdef, mark_attach_class_id, mark_filter_sets>>
    /\ last' = Stmt("script", s)
    /\ UNCHANGED <<errors, features, default_lang_systems, aalt, excluded, pos, block,
                   defined, panic, result>>

\* set_language(stmt)
SetLanguage(l, exclude_dflt, required) ==
    /\ Alive /\ pos = "feature"
    /\ LET s == IF IsSome(script) THEN Unwrap(script) ELSE SCRIPT_DFLT
           r == SetScriptLanguage(lookups, active_feature, required_features,
                                  s, l, exclude_dflt, required)
       IN /\ PendingWithin(r.af)
          /\ lookups' = r.L
          /\ active_feature' = r.af
          /\ required_features' = r.req
          /\ excluded' = IF exclude_dflt THEN excluded \cup {r.key} ELSE excluded
          /\ Cardinality(required_features') <= MaxMarked
          /\ Cardinality(excluded') <= MaxMarked
    /\ UNCHANGED <<anchor_defs, cursor, call, mark_classes,
                   gdef, mark_attach_class_id, mark_filter_sets>>
    /\ last' = [Stmt("language", l) EXCEPT !.x = exclude_dflt, !.r = required]
    /\ UNCHANGED <<errors, features, default_lang_systems, lookup_flags, script, aalt,
                   pos, block, defined, panic, result>>

\* LookupFlag bits
MARK_ATTACHMENT_TYPE_SHIFT == 256
RIGHT_TO_LEFT == 1
USE_MARK_FILTERING_SET == 16

\* set_lookup_flag(node), numeric form: lookupflag <n>;
SetLookupFlagNumber(n) ==
    /\ Alive /\ pos \in {"feature", "lookup"}
    /\ lookup_flags' = [lookup_flags EXCEPT !.flags = n]
    /\ UNCHANGED <<anchor_defs, cursor, call, mark_classes,
                   gdef, mark_attach_class_id, mark_filter_sets>>
    /\ last' = Stmt("lookupflag_number", "")
    /\ UNCHANGED <<errors, features, default_lang_systems, lookups, active_feature,
                   script, aalt, required_features, excluded, pos, block, defined,
                   panic, result>>

\* set_lookup_flag(node), keyword form: RightToLeft and/or
\* UseMarkFilteringSet @class (the class resolves to filter set 0)
\* resolve_mark_attach_class with a different id handed out on every call
\* (the lookup of an existing id left out).
ResolveMarkAttachClassAlwaysNew(ids, glyphs) ==
    LET mark_set == SortGlyphs(SeqToSet(glyphs))
        id == Cardinality(DOMAIN ids) + 1 + (IF mark_set \in DOMAIN ids THEN 1 ELSE 0)
    IN  [ids |-> MapPut(ids, mark_set, id), id |-> id]

\* resolve_mark_attach_class: the class is sorted and deduplicated; a set seen
\* before returns its id, a new one gets the number of sets seen so far plus one.
ResolveMarkAttachClass(ids, glyphs) ==
    LET mark_set == SortGlyphs(SeqToSet(glyphs))
        id == Cardinality(DOMAIN ids) + 1
    IN  IF mark_set \in DOMAIN ids
        THEN [ids |-> ids, id |-> ids[mark_set]]
        ELSE [ids |-> MapPut(ids, mark_set, id), id |-> id]

\* resolve_mark_filter_set: entry(set).or_insert(len).
ResolveMarkFilterSet(sets, glyphs) ==
    LET set == SortGlyphs(SeqToSet(glyphs))
        id == Cardinality(DOMAIN sets)
    IN  IF set \in DOMAIN sets
        THEN [sets |-> sets, id |-> sets[set]]
        ELSE [sets |-> MapPut(sets, set, id), id |-> id]

\* lookupflag RightToLeft / UseMarkFilteringSet [acute];
SetLookupFlagNamed(rtl, use_mfs) ==
    /\ Alive /\ pos \in {"feature", "lookup"}
    /\ rtl \/ use_mfs
    /\ LET r == ResolveMarkFilterSet(mark_filter_sets, <<1>>)
       IN  /\ lookup_flags' = LookupFlagInfoNew(
                    (IF rtl THEN RIGHT_TO_LEFT ELSE 0)
                        + (IF use_mfs THEN USE_MARK_FILTERING_SET ELSE 0),
                    IF use_mfs THEN Some(r.id) ELSE None)
           /\ mark_filter_sets' = IF use_mfs THEN r.sets ELSE mark_filter_sets
    /\ UNCHANGED <<anchor_defs, cursor, call, mark_classes,
                   gdef, mark_attach_class_id>>
    /\ last' = Stmt("lookupflag_named", "")
    /\ UNCHANGED <<errors, features, default_lang_systems, lookups, active_feature,
                   script, aalt, required_features, excluded, pos, block, defined,
                   panic, result>>

\* lookupflag MarkAttachmentType [glyphs];  The id is stored in the high byte
\* of the flags (set_mark_attachment_type).
SetLookupFlagMarkAttachmentType(glyphs) ==
    /\ Alive /\ pos \in {"feature", "lookup"}
    /\ LET r == ResolveMarkAttachClass(mark_attach_class_id, glyphs)
       IN  /\ lookup_flags' = LookupFlagInfoNew(r.id * MARK_ATTACHMENT_TYPE_SHIFT, None)
           /\ mark_attach_class_id' = r.ids
           /\ call' = [fn |-> "resolve_mark_attach_class", args |-> glyphs, ret |-> r.id]
    /\ UNCHANGED <<anchor_defs, cursor, mark_classes, gdef, mark_filter_sets>>
    /\ last' = Stmt("lookupflag_mark_attachment", "")
    /\ UNCHANGED <<errors, features, default_lang_systems, lookups, active_feature,
                   script, aalt, required_features, excluded, pos, block, defined,
                   panic, result>>

\* ensure_current_lookup_type that starts the lookup with empty flags
EnsureCurrentLookupTypeNoFlags(L, afopt, flags, kind) ==
    IF NeedsNewLookup(L, kind)
    THEN LET st == StartLookup(L, kind, ClearedFlags)
         IN [L |-> st.L,
             af |-> IF IsSome(st.finished)
                    THEN AddLookupToCurrentFeatureIfPresent(afopt, Unwrap(st.finished))
                    ELSE afopt]
    ELSE [L |-> L, af |-> afopt]

\* ensure_current_lookup_type(kind): what it does to the lookup store and
\* the active feature
EnsureCurrentLookupType(L, afopt, flags, kind) ==
    IF NeedsNewLookup(L, kind)
    THEN LET st == StartLookup(L, kind, flags)
         IN [L |-> st.L,
             af |-> IF IsSome(st.finished)
                    THEN AddLookupToCurrentFeatureIfPresent(afopt, Unwrap(st.finished))
                    ELSE afopt]
    ELSE [L |-> L, af |-> afopt]

\* SomeLookup::add_gsub_type_1 and the like: the rules of the current lookup
AddRules(L, rules) == [L EXCEPT !.current = Some([Unwrap(@) EXCEPT !.rules = @ \o rules])]

\* the rule statement is allowed here: validation lets a lookup block hold
\* rule statements of one node kind only
RuleAllowed(node) ==
    /\ Alive /\ pos \in {"feature", "lookup"}
    /\ pos = "lookup" /\ IsSome(block) => Unwrap(block) = node

\* a rule of this kind is added: ensure_current_lookup_type, then the rules
AddRuleOfKind(node, kind, rules) ==
    LET e == EnsureCurrentLookupType(lookups, active_feature, lookup_flags, kind)
        L == AddRules(e.L, rules)
    IN /\ NumLookups(L) <= MaxLookups
       /\ Len(Unwrap(L.current).rules) <= MaxRules
       /\ PendingWithin(e.af)
       /\ lookups' = L
       /\ active_feature' = e.af
       /\ block' = IF pos = "lookup" THEN Some(node) ELSE block


(***************************************************************************)
(* Rule statements                                                         *)
(***************************************************************************)
\* GlyphOrClass
Glyph(g) == [t |-> "Glyph", g |-> <<g>>]
Class(gs) == [t |-> "Class", g |-> gs]
Null == [t |-> "Null", g |-> <<>>]
IsNull(x) == x.t = "Null"

\* the targets and replacements the rule statements of a file are drawn from
SubTargets == {Glyph(1), Null}
SubReplacements == {Glyph(2), Class(<<2, 3>>), Null}
AltTargets == {1}
AltClasses == {<<2, 3>>}

\* validate_single_sub_inputs(target, replace): the error message, or "" when
\* the pair is returned
ValidateSingleSubInputs(target, replace) ==
    IF target.t = "Null" THEN "NULL is not a valid substitution target"
    ELSE IF target.t = "Glyph" /\ replace.t = "Class" THEN "cannot sub glyph by glyph class"
    ELSE IF target.t = "Class" /\ replace.t = "Class" /\ Len(target.g) # Len(replace.g)
    THEN "class has different length than target"
    ELSE ""

\* GlyphOrClass::into_iter_for_target zipped with the target's glyphs
ZipForTarget(target, replace) ==
    [i \in 1..Len(target.g) |->
        <<target.g[i], IF replace.t = "Glyph" THEN replace.g[1] ELSE replace.g[i]>>]

\* add_single_sub that adds the rules although validation rejected the pair
AddSingleSubUnchecked(target, replace) ==
    /\ RuleAllowed("Gsub1")
    /\ LET msg == ValidateSingleSubInputs(target, replace)
       IN /\ IF msg # ""
             THEN /\ Len(errors) < MaxDiags
                  /\ errors' = PushError(errors, msg)
             ELSE UNCHANGED errors
          /\ AddRuleOfKind("Gsub1", "GsubType1",
                           [i \in 1..Len(target.g) |-> <<target.g[i], 0>>])
    /\ UNCHANGED <<anchor_defs, cursor, call, mark_classes,
                   gdef, mark_attach_class_id, mark_filter_sets>>
    /\ last' = [Stmt("sub", IF ValidateSingleSubInputs(target, replace) # "" THEN "rejected"
                             ELSE "GsubType1")
                   EXCEPT !.inputs = <<target, replace>>]
    /\ UNCHANGED <<features, default_lang_systems, lookup_flags, script, aalt,
                   required_features, excluded, pos, defined, panic, result>>

\* add_single_sub(node)
AddSingleSub(target, replace) ==
    /\ RuleAllowed("Gsub1")
    /\ LET msg == ValidateSingleSubInputs(target, replace)
       IN IF msg # ""
          THEN /\ Len(errors) < MaxDiags
               /\ errors' = PushError(errors, msg)
               /\ block' = IF pos = "lookup" THEN Some("Gsub1") ELSE block
               /\ UNCHANGED <<lookups, active_feature>>
          ELSE /\ IF IsNull(replace)
                  THEN AddRuleOfKind("Gsub1", "GsubType2",
                                     [i \in 1..Len(target.g) |-> <<target.g[i], 0>>])
                  ELSE AddRuleOfKind("Gsub1", "GsubType1", ZipForTarget(target, replace))
               /\ UNCHANGED errors
    /\ UNCHANGED <<anchor_defs, cursor, call, mark_classes,
                   gdef, mark_attach_class_id, mark_filter_sets>>
    /\ last' = [Stmt("sub", IF ValidateSingleSubInputs(target, replace) # "" THEN "rejected"
                             ELSE IF IsNull(replace) THEN "GsubType2" ELSE "GsubType1")
                   EXCEPT !.inputs = <<target, replace>>]
    /\ UNCHANGED <<features, default_lang_systems, lookup_flags, script, aalt,
                   required_features, excluded, pos, defined, panic, result>>

\* add_contextual_sub(node) for one input glyph or class with an inline
\* rule: the inline substitution is validated, and the contextual rule is
\* added with the anonymous lookup of the inline rule, if there is one
AddContextualSub(target, replace) ==
    /\ RuleAllowed("Gsub6")
    /\ LET msg == ValidateSingleSubInputs(target, replace)
           inline == IF msg = "" THEN ZipForTarget(target, replace) ELSE <<>>
       IN /\ IF msg # ""
             THEN /\ Len(errors) < MaxDiags
                  /\ errors' = PushError(errors, msg)
             ELSE UNCHANGED errors
          /\ AddRuleOfKind("Gsub6", "GsubType6", <<[context |-> target.g, inline |-> inline]>>)
    /\ UNCHANGED <<anchor_defs, cursor, call, mark_classes,
                   gdef, mark_attach_class_id, mark_filter_sets>>
    /\ last' = [Stmt("sub_contextual", "GsubType6") EXCEPT !.inputs = <<target, replace>>]
    /\ UNCHANGED <<features, default_lang_systems, lookup_flags, script, aalt,
                   required_features, excluded, pos, defined, panic, result>>

\* add_reverse_contextual_sub(node)
AddReverseContextualSub(target, replace) ==
    /\ RuleAllowed("Gsub8")
    /\ LET msg == ValidateSingleSubInputs(target, replace)
       IN IF msg # ""
          THEN /\ Len(errors) < MaxDiags
               /\ errors' = PushError(errors, msg)
               /\ block' = IF pos = "lookup" THEN Some("Gsub8") ELSE block
               /\ UNCHANGED <<lookups, active_feature>>
          ELSE /\ AddRuleOfKind("Gsub8", "GsubType8",
                                <<[context |-> target.g, inline |-> ZipForTarget(target, replace)]>>)
               /\ UNCHANGED errors
    /\ UNCHANGED <<anchor_defs, cursor, call, mark_classes,
                   gdef, mark_attach_class_id, mark_filter_sets>>
    /\ last' = [Stmt("rsub", "GsubType8") EXCEPT !.inputs = <<target, replace>>]
    /\ UNCHANGED <<features, default_lang_systems, lookup_flags, script, aalt,
                   required_features, excluded, pos, defined, panic, result>>

\* add_alternate_sub(node)
AddAlternateSub(target, alts) ==
    /\ RuleAllowed("Gsub3")
    /\ AddRuleOfKind("Gsub3", "GsubType3", [i \in 1..Len(alts) |-> <<target, alts[i]>>])
    /\ UNCHANGED <<anchor_defs, cursor, call, mark_classes,
                   gdef, mark_attach_class_id, mark_filter_sets>>
    /\ last' = Stmt("sub", "GsubType3")
    /\ UNCHANGED <<errors, features, default_lang_systems, lookup_flags, script, aalt,
                   required_features, excluded, pos, defined, panic, result>>

\* add_pair_pos(node)
AddPairPos ==
    /\ RuleAllowed("Gpos2")
    /\ AddRuleOfKind("Gpos2", "GposType2", <<<<0, 0>>>>)
    /\ UNCHANGED <<anchor_defs, cursor, call, mark_classes,
                   gdef, mark_attach_class_id, mark_filter_sets>>
    /\ last' = Stmt("pos", "GposType2")
    /\ UNCHANGED <<errors, features, default_lang_systems, lookup_flags, script, aalt,
                   required_features, excluded, pos, defined, panic, result>>

\* add_gsub_statement(node), a rule type that is not implemented
AddUnimplementedRule ==
    /\ RuleAllowed("Gsub5")
    /\ Len(errors) < MaxDiags
    /\ errors' = PushWarning(errors, "unimplemented rule type")
    /\ block' = IF pos = "lookup" THEN Some("Gsub5") ELSE block
    /\ UNCHANGED <<anchor_defs, cursor, call, mark_classes,
                   gdef, mark_attach_class_id, mark_filter_sets>>
    /\ last' = Stmt("sub", "unimplemented")
    /\ UNCHANGED <<features, default_lang_systems, lookups, lookup_flags, active_feature,
                   script, aalt, required_features, excluded, pos, defined, panic, result>>

\* resolve_lookup_ref(lookup), inside a feature; `refs` of the current lookup
\* remembers the names referenced while it was being populated
ResolveLookupRef(name) ==
    /\ Alive /\ pos = "feature"
    /\ IsSome(GetNamed(lookups, name))
    /\ LET id == Unwrap(GetNamed(lookups, name))
           af == AddLookupToCurrentFeatureIfPresent(active_feature, id)
       IN /\ PendingWithin(af)
          /\ active_feature' = af
    /\ lookups' = IF HasCurrent(lookups)
                  THEN [lookups EXCEPT !.current = Some([Unwrap(@) EXCEPT !.refs = @ \cup {name}])]
                  ELSE lookups
    /\ UNCHANGED <<anchor_defs, cursor, call, mark_classes,
                   gdef, mark_attach_class_id, mark_filter_sets>>
    /\ last' = Stmt("lookup_ref", name)
    /\ UNCHANGED <<errors, features, default_lang_systems, lookup_flags, script, aalt,
                   required_features, excluded, pos, block, defined, panic, result>>


(***************************************************************************)
(* The aalt feature (compile/features.rs, AaltFeature)                     *)
(*   features : the referenced feature tags, in source order               *)
(*   all_alts : target glyph -> its alternates, without duplicates         *)
(***************************************************************************)
AaltFeatureDefault == [features |-> <<>>, all_alts |-> EmptyMap]

\* AaltFeature::extend(pairs): every (target, alt) not seen before is
\* appended to the target's alternates
RECURSIVE AaltExtend(_, _)
AaltExtend(a, pairs) ==
    IF pairs = <<>> THEN a
    ELSE LET t == pairs[1][1]
             alt == pairs[1][2]
             old == MapGet(a.all_alts, t, <<>>)
             a1 == IF alt \in SeqToSet(old) THEN a
                   ELSE [a EXCEPT !.all_alts = MapPut(@, t, Append(old, alt))]
         IN AaltExtend(a1, Tail(pairs))

\* what a file's aalt block holds: feature references and direct rules
AaltRefs == {<<>>, <<"liga">>}
AaltDirect == {<<>>, <<<<2, 3>>>>}

\* add_feature(feature) for the tag aalt: start_feature,
\* resolve_aalt_feature, end_feature
AddAaltFeature(refs, direct) ==
    /\ Alive /\ pos = "top"
    /\ aalt = None
    /\ IF HasCurrent(lookups)
       THEN /\ panic' = "no lookup should be active at start of feature"
            /\ UNCHANGED <<aalt, lookup_flags, features>>
       ELSE /\ aalt' = Some(AaltExtend([AaltFeatureDefault EXCEPT !.features = refs], direct))
            /\ features' = AddToFeatures(ActiveFeatureNew(AALT, default_lang_systems), features)
            /\ lookup_flags' = ClearedFlags
            /\ UNCHANGED panic
    /\ UNCHANGED <<anchor_defs, cursor, call, mark_classes,
                   gdef, mark_attach_class_id, mark_filter_sets>>
    /\ last' = Stmt("aalt_feature", "")
    /\ UNCHANGED <<errors, default_lang_systems, lookups, active_feature, script,
                   required_features, excluded, pos, block, defined, result>>

(***************************************************************************)
(* Orderings (derived Ord of Tag, FeatureKey and LookupId)                 *)
(***************************************************************************)
\* tags compare as their bytes: upper case before lower case
TagRank(tag) ==
    CASE tag = "DFLT" -> 1
      [] tag = "TRK" -> 2
      [] tag = "aalt" -> 3
      [] tag = "cyrl" -> 4
      [] tag = "dflt" -> 5
      [] tag = "kern" -> 6
      [] tag = "latn" -> 7
      [] tag = "liga" -> 8
      [] OTHER -> 9

\* FeatureKey orders by feature, then language, then script
KeyLess(a, b) ==
    \/ TagRank(a[3]) < TagRank(b[3])
    \/ a[3] = b[3] /\ TagRank(a[2]) < TagRank(b[2])
    \/ a[3] = b[3] /\ a[2] = b[2] /\ TagRank(a[1]) < TagRank(b[1])

\* LookupId orders Gpos(_) < Gsub(_) < Empty, then by index
TableRank(id) == CASE id.t = "GPOS" -> 0 [] id.t = "GSUB" -> 1 [] OTHER -> 2
LookupIdLess(a, b) ==
    \/ TableRank(a) < TableRank(b)
    \/ TableRank(a) = TableRank(b) /\ a.i < b.i


\* the feature keys of a set, ascending (iteration of the feature map)
SortKeys(S) ==
    [i \in 1..Cardinality(S) |->
        CHOOSE x \in S : Cardinality({y \in S : KeyLess(y, x)}) = i - 1]

\* slice::sort_unstable on lookup ids: equal ids are indistinguishable
SortUnstable(s) ==
    [i \in 1..Len(s) |->
        CHOOSE x \in SeqToSet(s) :
            /\ Cardinality({j \in 1..Len(s) : LookupIdLess(s[j], x)}) < i
            /\ i <= Cardinality({j \in 1..Len(s) : LookupIdLess(s[j], x) \/ s[j] = x})]

\* a sequence back to front
Reversed(s) == [i \in 1..Len(s) |-> s[Len(s) + 1 - i]]

\* Vec::dedup that removes nothing
DedupNothing(s) == s

\* Vec::dedup(): removes consecutive repeated elements
RECURSIVE Dedup(_)
Dedup(s) ==
    IF Len(s) <= 1 THEN s
    ELSE IF s[1] = s[2] THEN Dedup(Tail(s))
    ELSE <<s[1]>> \o Dedup(Tail(s))

RECURSIVE Flatten(_)
Flatten(ss) == IF ss = <<>> THEN <<>> ELSE ss[1] \o Flatten(Tail(ss))


(***************************************************************************)
(* Finalization: finalize_aalt, sort_and_dedupe_lookups, build             *)
(***************************************************************************)
\* AllLookups::aalt_lookups(id): the substitution lookups behind an id
AaltLookups(L, id) ==
    IF id.t = "GSUB" /\ id.i < Len(L.gsub) THEN <<L.gsub[id.i + 1]>> ELSE <<>>

\* LookupId::adjust_if_gsub(n)
AdjustIfGsub(id, n) == IF id.t = "GSUB" THEN Gsub(id.i + n) ELSE id

\* AllLookups::insert_aalt_lookups(all_alts): one type-1 lookup for the
\* targets with a single alternate, one type-3 lookup for the others, put in
\* front of the GSUB lookups; returns the store and the new ids
InsertAaltLookups(L, all_alts) ==
    LET singles == SortGlyphs({t \in DOMAIN all_alts : Len(all_alts[t]) = 1})
        multis == SortGlyphs({t \in DOMAIN all_alts : Len(all_alts[t]) > 1})
        pairsOf(ts) == Flatten([i \in 1..Len(ts) |->
                          [j \in 1..Len(all_alts[ts[i]]) |-> <<ts[i], all_alts[ts[i]][j]>>]])
        mk(kind, ts) == [SomeLookupNew(kind, ClearedFlags) EXCEPT !.rules = pairsOf(ts)]
        one == IF singles # <<>> THEN <<mk("GsubType1", singles)>> ELSE <<>>
        two == IF multis # <<>> THEN <<mk("GsubType3", multis)>> ELSE <<>>
        new == one \o two
    IN [L |-> [L EXCEPT !.gsub = new \o @],
        ids |-> [i \in 1..Len(new) |-> Gsub(i - 1)]]

\* finalize_aalt, first half: the alternates of the referenced features are
\* collected, by order of the tags in the aalt block
CollectAalt(a, feats, L) ==
    LET keys == SortKeys(DOMAIN feats)
        ofTag(tag) == Flatten([i \in 1..Len(keys) |->
                         IF keys[i][3] = tag
                         THEN Flatten([j \in 1..Len(feats[keys[i]]) |->
                                          AaltLookups(L, feats[keys[i]][j])])
                         ELSE <<>>])
        all == Flatten([f \in 1..Len(a.features) |-> ofTag(a.features[f])])
        pairs == Flatten([i \in 1..Len(all) |->
                     IF all[i].kind \in {"GsubType1", "GsubType3"} THEN all[i].rules
                     ELSE <<>>])
    IN AaltExtend(a, pairs)

\* finalize_aalt adjusting every id, whatever its table
AdjustFeaturesAnyTable(feats, n) ==
    [k \in DOMAIN feats |->
        [i \in 1..Len(feats[k]) |-> [feats[k][i] EXCEPT !.i = @ + n]]]

\* finalize_aalt: the ids already in the feature map are adjusted
AdjustFeatures(feats, n) ==
    [k \in DOMAIN feats |-> [i \in 1..Len(feats[k]) |-> AdjustIfGsub(feats[k][i], n)]]

\* finalize_aalt adding the aalt feature under (DFLT, dflt) only
InsertAaltFeatureDfltOnly(feats, dls, ids) ==
    LET keys == {ToFeatureKey(LanguageSystem(SCRIPT_DFLT, LANG_DFLT), AALT)}
    IN [k \in DOMAIN feats \cup keys |-> IF k \in keys THEN ids ELSE feats[k]]

\* finalize_aalt: the aalt feature is added to every default language system
InsertAaltFeature(feats, dls, ids) ==
    LET keys == {ToFeatureKey(sys, AALT) : sys \in DefaultIter(dls)}
    IN [k \in DOMAIN feats \cup keys |-> IF k \in keys THEN ids ELSE feats[k]]

\* finalize_aalt()
FinalizeAalt(aopt, feats, L, dls) ==
    IF ~IsSome(aopt) THEN [aalt |-> aopt, features |-> feats, L |-> L, n |-> 0]
    ELSE LET a == CollectAalt(Unwrap(aopt), feats, L)
             ins == InsertAaltLookups(L, a.all_alts)
             n == Len(ins.ids)
         IN [aalt |-> Some([a EXCEPT !.all_alts = EmptyMap]),
             features |-> InsertAaltFeature(AdjustFeatures(feats, n), dls, ins.ids),
             L |-> ins.L,
             n |-> n]

\* sort_and_dedupe_lookups() with the comparison the wrong way round
SortDescendingAndDedupe(feats) ==
    [k \in DOMAIN feats |-> Dedup(Reversed(SortUnstable(feats[k])))]

\* sort_and_dedupe_lookups()
SortAndDedupeLookups(feats) ==
    [k \in DOMAIN feats |-> Dedup(SortUnstable(feats[k]))]

(***************************************************************************)
(* GDEF (compile/tables.rs: GdefBuilder)                                   *)
(*   glyph_classes     : glyph -> ClassId                                  *)
(*   attach            : glyph -> attachment point indices                 *)
(*   ligature_pos      : glyph -> caret values                             *)
(*   mark_attach_class : glyph -> mark attachment class id                 *)
(*   mark_glyph_sets   : the mark filtering sets, by filter set id         *)
(***************************************************************************)
GdefBuilderDefault ==
    [glyph_classes |-> EmptyMap, attach |-> EmptyMap, ligature_pos |-> EmptyMap,
     mark_attach_class |-> EmptyMap, mark_glyph_sets |-> <<>>]

\* GdefBuilder::is_empty()
GdefIsEmpty(g) == g = GdefBuilderDefault

\* GdefBuilder::add_glyph_class(glyphs, class): Err((glyph, old class)) at
\* the first glyph that has another class already
RECURSIVE AddGlyphClass(_, _, _)
AddGlyphClass(classes, glyphs, id) ==
    IF glyphs = <<>>
    THEN [classes |-> classes, err |-> None]
    ELSE LET g == Head(glyphs)
             next == MapPut(classes, g, id)
         IN IF g \in DOMAIN classes /\ classes[g] # id
            THEN [classes |-> next, err |-> Some(<<g, classes[g]>>)]
            ELSE AddGlyphClass(next, Tail(glyphs), id)

\* resolve_gdef(table): table GDEF { Attach d 1; GlyphClassDef base, , mark, ; }
\* with the Attach statement and either class of the GlyphClassDef statement
\* written or not.  The builder replaces tables.gdef, whatever the block holds.
ResolveGdef(attach, base, mark) ==
    /\ Alive /\ pos = "top"
    /\ LET g1 == IF attach
                 THEN [GdefBuilderDefault EXCEPT !.attach = MapPut(@, 4, <<1>>)]
                 ELSE GdefBuilderDefault
           b == IF IsSome(base)
                THEN AddGlyphClass(g1.glyph_classes, Unwrap(base), "Base")
                ELSE [classes |-> g1.glyph_classes, err |-> None]
           m == IF IsSome(mark)
                THEN AddGlyphClass(b.classes, Unwrap(mark), "Mark")
                ELSE [classes |-> b.classes, err |-> None]
           Report(errs, e) ==
               IF IsSome(e)
               THEN PushError(errs, "class includes glyph '" \o ToString(Unwrap(e)[1])
                                       \o "', already in class " \o Unwrap(e)[2])
               ELSE errs
       IN /\ errors' = Report(Report(errors, b.err), m.err)
          /\ Len(errors') <= MaxDiags
          /\ gdef' = Some([g1 EXCEPT !.glyph_classes = m.classes])
    /\ last' = [Stmt("table_gdef", "") EXCEPT !.inputs = <<attach, base, mark>>]
    /\ UNCHANGED <<features, default_lang_systems, lookups, lookup_flags,
                   active_feature, script, aalt, required_features, excluded, pos,
                   block, defined, panic, result, anchor_defs, cursor, call,
                   mark_classes, mark_attach_class_id, mark_filter_sets>>

\* AllLookups::infer_glyph_classes: the marks of the mark attachment lookups
\* (and the base marks of mark-to-mark) are Mark, the ligatures of
\* mark-to-ligature are Ligature, and Base is the class of the remaining
\* bases of mark-to-base
InferGlyphClasses(L) ==
    LET Entries(kind, tag) ==
            UNION {{r[2] : r \in {x \in SeqToSet(L.gpos[i].rules) : x[1] = tag}} :
                      i \in {j \in DOMAIN L.gpos : L.gpos[j].kind = kind}}
        marks == Entries("GposType4", "mark") \cup Entries("GposType5", "mark")
                    \cup Entries("GposType6", "mark") \cup Entries("GposType6", "base")
        ligs == Entries("GposType5", "lig")
        bases == Entries("GposType4", "base")
    IN  [g \in marks \cup ligs \cup bases |->
            IF g \in marks THEN "Mark" ELSE IF g \in ligs THEN "Ligature" ELSE "Base"]

\* the glyph classes with the inference from lookups alone (the pass over the
\* mark classes left out)
FinalizeGlyphClassesLookupsOnly(glyph_classes, L, mc) ==
    IF DOMAIN glyph_classes # {} THEN glyph_classes ELSE InferGlyphClasses(L)

\* the glyph classes with the inference made whether or not classes were
\* declared
FinalizeGlyphClassesAlways(glyph_classes, L, mc) ==
    LET inferred == InferGlyphClasses(L)
        marks == UNION {UNION {SeqToSet(mc[n][k].glyphs) : k \in DOMAIN mc[n]} :
                          n \in DOMAIN mc}
    IN  [g \in DOMAIN glyph_classes \cup DOMAIN inferred \cup marks |->
            IF g \in marks THEN "Mark"
            ELSE IF g \in DOMAIN inferred THEN inferred[g] ELSE glyph_classes[g]]

\* finalize_gdef_table, the glyph classes: declared classes are kept; with
\* none declared they are inferred from the lookups, and then every glyph of
\* every mark class is inserted as Mark
FinalizeGlyphClasses(glyph_classes, L, mc) ==
    IF DOMAIN glyph_classes # {}
    THEN glyph_classes
    ELSE LET inferred == InferGlyphClasses(L)
             marks == UNION {UNION {SeqToSet(mc[n][k].glyphs) : k \in DOMAIN mc[n]} :
                          n \in DOMAIN mc}
         IN  [g \in DOMAIN inferred \cup marks |->
                 IF g \in marks THEN "Mark" ELSE inferred[g]]

\* finalize_gdef_table(): the values tables.gdef can have afterwards.  The
\* mark attachment classes are merged in the iteration order of a HashMap, so
\* a glyph of several classes gets the id of whichever comes last; the filter
\* sets are stored in the order of their ids; an empty builder is dropped.
FinalizeGdefTable(gopt, L, mc, attach_ids, filter_sets) ==
    LET g0 == IF IsSome(gopt) THEN Unwrap(gopt) ELSE GdefBuilderDefault
        n == Cardinality(DOMAIN attach_ids)
        orders == {o \in [DOMAIN attach_ids -> 1..n] :
                      \A c, d \in DOMAIN attach_ids : c # d => o[c] # o[d]}
        Merged(o) ==
            [g \in DOMAIN g0.mark_attach_class
                    \cup UNION {SeqToSet(c) : c \in DOMAIN attach_ids} |->
                LET of == {c \in DOMAIN attach_ids : g \in SeqToSet(c)}
                IN  IF of = {} THEN g0.mark_attach_class[g]
                    ELSE attach_ids[CHOOSE c \in of : \A d \in of : o[d] <= o[c]]]
        sets == IF DOMAIN filter_sets = {} THEN g0.mark_glyph_sets
                ELSE [i \in 1..Cardinality(DOMAIN filter_sets) |->
                         CHOOSE c \in DOMAIN filter_sets : filter_sets[c] = i - 1]
        Emit(g) == IF GdefIsEmpty(g) THEN None ELSE Some(g)
    IN  {Emit([g0 EXCEPT !.glyph_classes = FinalizeGlyphClasses(@, L, mc),
                         !.mark_attach_class = Merged(o),
                         !.mark_glyph_sets = sets]) : o \in orders}

\* compile(node) after the last top-level item: finalize_gdef_table,
\* finalize_aalt and sort_and_dedupe_lookups
Finalize ==
    /\ Alive /\ pos = "top"
    /\ gdef' \in FinalizeGdefTable(gdef, lookups, mark_classes, mark_attach_class_id,
                                   mark_filter_sets)
    /\ LET fa == FinalizeAalt(aalt, features, lookups, default_lang_systems)
       IN /\ aalt' = fa.aalt
          /\ lookups' = fa.L
          /\ features' = SortAndDedupeLookups(fa.features)
    /\ pos' = "done"
    /\ UNCHANGED <<anchor_defs, cursor, call, mark_classes,
                   mark_attach_class_id, mark_filter_sets>>
    /\ last' = Stmt("finalize", "")
    /\ UNCHANGED <<errors, default_lang_systems, lookup_flags, active_feature, script,
                   required_features, excluded, block, defined, panic, result>>

\* build() with `all` where the code has `any`
BuildResultAll(errs, L, feats, req) ==
    IF \A i \in 1..Len(errs) : IsError(errs[i])
    THEN [ok |-> FALSE, diagnostics |-> errs]
    ELSE [ok |-> TRUE, warnings |-> errs, lookups |-> L, features |-> feats,
          required_features |-> req]

\* build(): Result<Compilation, Vec<Diagnostic>>
BuildResult(errs, L, feats, req) ==
    IF \E i \in 1..Len(errs) : IsError(errs[i])
    THEN [ok |-> FALSE, diagnostics |-> errs]
    ELSE [ok |-> TRUE, warnings |-> errs, lookups |-> L, features |-> feats,
          required_features |-> req]

Build ==
    /\ Alive /\ pos = "done"
    /\ result' = Some(BuildResult(errors, lookups, features, required_features))
    /\ pos' = "built"
    /\ UNCHANGED <<anchor_defs, cursor, call, mark_classes,
                   gdef, mark_attach_class_id, mark_filter_sets>>
    /\ last' = Stmt("build", "")
    /\ UNCHANGED <<errors, features, default_lang_systems, lookups, lookup_flags,
                   active_feature, script, aalt, required_features, excluded, block,
                   defined, panic>>

(***************************************************************************)
(* Specifications.  Each one compiles the files made of one family of      *)
(* statements, so that the state space stays small enough to explore.      *)
(***************************************************************************)
\* the rule inputs that pass validate_single_sub_inputs
GoodTargets == {Glyph(1)}
GoodReplacements == {Glyph(2), Null}

Blocks ==
    \/ \E tag \in FeatureTags : StartFeature(tag)
    \/ EndFeature
    \/ \E name \in LookupNames : StartLookupBlock(name)
    \/ EndLookupBlock

\* languagesystem statements precede the feature and lookup blocks of a file
\* and DFLT is declared before any other script
LanguageSystemsFirst ==
    /\ last.op \in {"new", "languagesystem"}
    /\ default_lang_systems \in {{}, {LanguageSystem(SCRIPT_DFLT, LANG_DFLT)}}

FeatureBlocks ==
    \/ \E tag \in FeatureTags : StartFeature(tag)
    \/ EndFeature

GoodRules ==
    \/ \E t \in GoodTargets, r \in GoodReplacements : AddSingleSub(t, r)
    \/ AddPairPos

\* files of feature blocks, lookup blocks, rules, lookup references and an
\* aalt feature
Next ==
    \/ Blocks
    \/ GoodRules
    \/ \E name \in LookupNames : ResolveLookupRef(name)
    \/ AddAaltFeature(<<"liga">>, <<>>)
    \/ Finalize

Spec == Init /\ [][Next]_vars

\* the lookupflag statements of a file
FlagNumbers == {0}

\* files of feature blocks, lookup blocks, rules and lookupflag statements
NextFlags ==
    \/ Blocks
    \/ \E t \in GoodTargets : AddSingleSub(t, Glyph(2))
    \/ AddPairPos
    \/ \E n \in FlagNumbers : SetLookupFlagNumber(n)
    \/ SetLookupFlagNamed(FALSE, TRUE)
    \/ Finalize

SpecFlags == Init /\ [][NextFlags]_vars

\* files of language systems, feature blocks with script and language
\* statements, and rules
NextScript ==
    \/ \E s \in Scripts : LanguageSystemsFirst /\ AddLanguageSystem(s, LANG_DFLT)
    \/ FeatureBlocks
    \/ \E s \in Scripts \ {SCRIPT_DFLT} : SetScript(s)
    \/ \E l \in Languages \ {LANG_DFLT}, x \in BOOLEAN : SetLanguage(l, x, FALSE)
    \/ \E t \in GoodTargets : AddSingleSub(t, Glyph(2))
    \/ Finalize

SpecScript == Init /\ [][NextScript]_vars

\* files of language systems, feature blocks with substitution and
\* positioning rules, and an aalt feature
NextAalt ==
    \/ \E s \in Scripts : LanguageSystemsFirst /\ AddLanguageSystem(s, LANG_DFLT)
    \/ FeatureBlocks
    \/ GoodRules
    \/ \E t \in AltTargets, c \in AltClasses : AddAlternateSub(t, c)
    \/ \E refs \in AaltRefs, direct \in AaltDirect : AddAaltFeature(refs, direct)
    \/ Finalize

SpecAalt == Init /\ [][NextAalt]_vars

\* files of feature blocks whose rules may be rejected or unimplemented,
\* compiled and built
NextDiag ==
    \/ FeatureBlocks
    \/ \E t \in SubTargets, r \in SubReplacements : AddSingleSub(t, r)
    \/ AddUnimplementedRule
    \/ Finalize
    \/ Build

SpecDiag == Init /\ [][NextDiag]_vars


\* the replacements and the aalt rules of files that give one target glyph
\* several alternates

\* files of feature blocks with language statements and single
\* substitutions, and an aalt feature that refers to them
NextAaltOrder ==
    \/ FeatureBlocks
    \/ \E l \in Languages \ {LANG_DFLT}, x \in BOOLEAN : SetLanguage(l, x, FALSE)
    \/ \E t \in GoodTargets, r \in {Glyph(2), Glyph(3)} : AddSingleSub(t, r)
    \/ \E direct \in {<<>>, <<<<1, 3>>>>} : AddAaltFeature(<<"liga">>, direct)
    \/ Finalize

SpecAaltOrder == Init /\ [][NextAaltOrder]_vars

\* the <<exclude_dflt, required>> of the language statements of a file

\* files of feature blocks with script and language statements, the
\* latter with or without exclude_dflt and required, compiled and built
NextLanguage ==
    \/ FeatureBlocks
    \/ \E s \in Scripts \ {SCRIPT_DFLT} : SetScript(s)
    \/ \E l \in Languages \ {LANG_DFLT}, f \in {<<FALSE, TRUE>>, <<TRUE, FALSE>>} : SetLanguage(l, f[1], f[2])
    \/ \E t \in GoodTargets : AddSingleSub(t, Glyph(2))
    \/ Finalize
    \/ Build

SpecLanguage == Init /\ [][NextLanguage]_vars

\* the targets and replacements of the substitutions of one glyph or class

\* the inline rules of the contextual substitutions of a file
InlineRules ==
    {<<Glyph(1), Glyph(2)>>, <<Glyph(1), Class(<<2, 3>>)>>,
     <<Class(<<1, 2>>), Class(<<2, 3>>)>>, <<Class(<<1, 2>>), Class(<<3>>)>>}

\* one feature block with single substitutions, plain or as the inline
\* rule of a contextual or reverse contextual substitution, followed up to
\* the statement after the one that stores the block's first lookup
NextSingleSub ==
    \/ \E tag \in FeatureTags : last.op = "new" /\ StartFeature(tag)
    \/ \E t \in {Glyph(1), Class(<<1, 2>>), Null},
          r \in {Glyph(2), Class(<<2, 3>>), Class(<<3>>), Null} :
          lookups.gsub = <<>> /\ AddSingleSub(t, r)
    \/ \E p \in InlineRules : lookups.gsub = <<>> /\ AddContextualSub(p[1], p[2])
    \/ \E p \in InlineRules : lookups.gsub = <<>> /\ AddReverseContextualSub(p[1], p[2])
    \/ EndFeature

SpecSingleSub == Init /\ [][NextSingleSub]_vars

(***************************************************************************)
(* ValueRecordExt (compile/valuerecordext.rs)                              *)
(*   a ValueRecord: four optional values and whether it has a device table *)
(***************************************************************************)
\* the values of a value record's fields
Values == {-1, 0, 1}
OptionalValues == {None} \cup {Some(v) : v \in Values}

ValueRecords ==
    [x_placement : OptionalValues, y_placement : OptionalValues,
     x_advance : OptionalValues, y_advance : OptionalValues, device : BOOLEAN]

\* clear_zeros() that leaves y_advance as it is
ClearZerosButYAdvance(R) ==
    [R EXCEPT !.x_placement = IF @ = Some(0) THEN None ELSE @,
              !.y_placement = IF @ = Some(0) THEN None ELSE @,
              !.x_advance = IF @ = Some(0) THEN None ELSE @]

\* clear_zeros(self)
ClearZeros(R) ==
    [R EXCEPT !.x_placement = IF @ = Some(0) THEN None ELSE @,
              !.y_placement = IF @ = Some(0) THEN None ELSE @,
              !.x_advance = IF @ = Some(0) THEN None ELSE @,
              !.y_advance = IF @ = Some(0) THEN None ELSE @]

\* ValueRecord::format().is_empty(): no field is set
FormatIsEmpty(R) ==
    /\ ~R.device
    /\ \A v \in {R.x_placement, R.y_placement, R.x_advance, R.y_advance} : ~IsSome(v)

\* v.unwrap_or_default()
UnwrapOrDefault(v) == IF IsSome(v) THEN Unwrap(v) ELSE 0

\* is_all_zeros(&self): not null, no device table, every set value 0
IsAllZeros(R) ==
    IF FormatIsEmpty(R) \/ R.device THEN FALSE
    ELSE \A v \in {R.x_placement, R.y_placement, R.x_advance, R.y_advance} :
            UnwrapOrDefault(v) = 0

\* for_pair_pos with the two axes taken for each other
ForPairPosOtherAxis(R, in_vert_feature) ==
    IF ~IsAllZeros(R) THEN ClearZeros(R)
    ELSE IF in_vert_feature THEN [ClearZeros(R) EXCEPT !.x_advance = Some(0)]
    ELSE [ClearZeros(R) EXCEPT !.y_advance = Some(0)]

\* for_pair_pos(self, in_vert_feature)
ForPairPos(R, in_vert_feature) ==
    IF ~IsAllZeros(R) THEN ClearZeros(R)
    ELSE IF in_vert_feature THEN [ClearZeros(R) EXCEPT !.y_advance = Some(0)]
    ELSE [ClearZeros(R) EXCEPT !.x_advance = Some(0)]

\* a helper function is called: nothing of the compilation changes
Called(fn, args, ret) ==
    /\ call' = [fn |-> fn, args |-> args, ret |-> ret]
    /\ UNCHANGED <<errors, features, default_lang_systems, lookups, lookup_flags,
                   active_feature, script, aalt, required_features, excluded, pos,
                   block, defined, panic, result, last, anchor_defs, cursor,
                   mark_classes,
                   gdef, mark_attach_class_id, mark_filter_sets>>

CallClearZeros(R) == Called("clear_zeros", <<R>>, ClearZeros(R))

CallForPairPos(R, in_vert_feature) ==
    Called("for_pair_pos", <<R, in_vert_feature>>, ForPairPos(R, in_vert_feature))

\* the value record helpers applied to every value record
NextValueRecord ==
    \/ \E R \in ValueRecords : CallClearZeros(R)
    \/ \E R \in ValueRecords, v \in BOOLEAN : CallForPairPos(R, v)

SpecValueRecord == Init /\ [][NextValueRecord]_vars

(***************************************************************************)
(* Named anchors                                                           *)
(***************************************************************************)
MaxPos == 2          \* largest byte offset of a node in its source buffer

AnchorNames == {"A", "B"}
Positions == 0..MaxPos

\* AnchorTable::format_1(x, y), format_2(x, y, point), format_3(x, y, devices)
Format1(x) == [format |-> 1, x |-> x]
Format2(x) == [format |-> 2, x |-> x]
Format3(x) == [format |-> 3, x |-> x]

\* typed::Anchor: coordinates (with contour point or devices), a name, or NULL
AnchorCoords(a) == [t |-> "coords", a |-> a, n |-> ""]
AnchorNamed(n) == [t |-> "name", a |-> Format1(0), n |-> n]
AnchorNull == [t |-> "null", a |-> Format1(0), n |-> ""]

\* resolve_anchor where a name resolves wherever its definition stands
ResolveAnchorAnywhere(defs, item, start) ==
    IF item.t = "coords" THEN [ret |-> Some(item.a), err |-> ""]
    ELSE IF item.t = "name"
    THEN IF item.n \in DOMAIN defs
         THEN [ret |-> Some(defs[item.n].anchor), err |-> ""]
         ELSE [ret |-> None, err |-> "anchor is not defined"]
    ELSE [ret |-> None, err |-> ""]

\* resolve_anchor(item): the anchor, if any, and the error it pushes, if any;
\* start is item.range().start
ResolveAnchor(defs, item, start) ==
    IF item.t = "coords" THEN [ret |-> Some(item.a), err |-> ""]
    ELSE IF item.t = "name"
    THEN IF item.n \in DOMAIN defs /\ defs[item.n].pos < start
         THEN [ret |-> Some(defs[item.n].anchor), err |-> ""]
         ELSE [ret |-> None, err |-> "anchor is not defined"]
    ELSE [ret |-> None, err |-> ""]

\* errors after the given messages are pushed, the empty ones skipped
PushErrors(errs, msgs) ==
    LET kept == SelectSeq(msgs, LAMBDA m : m # "")
    IN errs \o [i \in 1..Len(kept) |-> DiagError(kept[i])]

\* define_named_anchor(anchor_def): anchorDef at top level, start is
\* anchor_def.range().start
DefineNamedAnchor(name, a, start) ==
    /\ Alive /\ pos = "top"
    /\ LET r == ResolveAnchor(anchor_defs, AnchorCoords(a), start)
       IN IF Unwrap(r.ret).format \notin {1, 2}
          THEN /\ Len(errors) < MaxDiags
               /\ errors' = PushError(errors,
                     "named anchor definition can only be in format A or B")
               /\ UNCHANGED anchor_defs
          ELSE /\ anchor_defs' = MapPut(anchor_defs, name,
                                        [anchor |-> Unwrap(r.ret), pos |-> start])
               /\ IF name \in DOMAIN anchor_defs
                  THEN /\ Len(errors) < MaxDiags
                       /\ errors' = PushError(errors, "duplicate anchor definition")
                  ELSE UNCHANGED errors
    /\ cursor' = start
    /\ last' = [Stmt("anchorDef", name) EXCEPT !.inputs = <<a, start>>]
    /\ UNCHANGED <<features, default_lang_systems, lookups, lookup_flags, active_feature,
                   script, aalt, required_features, excluded, pos, block, defined,
                   panic, result, call, mark_classes,
                   gdef, mark_attach_class_id, mark_filter_sets>>

\* add_cursive_pos(node) for one glyph: start is node.entry().range().start,
\* and the exit anchor stands right after the entry anchor
AddCursivePos(entry, exit, start) ==
    /\ RuleAllowed("Gpos3")
    /\ LET e == ResolveAnchor(anchor_defs, entry, start)
           x == ResolveAnchor(anchor_defs, exit, start + 1)
       IN /\ errors' = PushErrors(errors, <<e.err, x.err>>)
          /\ Len(errors') <= MaxDiags
          /\ AddRuleOfKind("Gpos3", "GposType3", <<[entry |-> e.ret, exit |-> x.ret]>>)
          /\ call' = [fn |-> "resolve_anchor", args |-> <<entry, exit>>,
                      ret |-> <<e.ret, x.ret>>]
    /\ cursor' = start
    /\ last' = [Stmt("pos", "GposType3") EXCEPT !.inputs = <<entry, exit>>]
    /\ UNCHANGED <<features, default_lang_systems, lookup_flags, script, aalt,
                   required_features, excluded, pos, defined, panic, result,
                   anchor_defs, mark_classes,
                   gdef, mark_attach_class_id, mark_filter_sets>>


\* anchorDef statements for the name A at top level, and one feature block
\* of cursive rules that name A and the undefined B
NextAnchor ==
    \/ \E a \in {Format1(0), Format2(1), Format3(0)}, p \in Positions :
          features = EmptyMap /\ DefineNamedAnchor("A", a, p)
    \/ \E tag \in FeatureTags : features = EmptyMap /\ StartFeature(tag)
    \/ \E e \in ({AnchorNamed(n) : n \in AnchorNames} \cup {AnchorCoords(Format1(1))}),
          x \in {AnchorNamed("A"), AnchorNull}, p \in Positions :
          AddCursivePos(e, x, p)
    \/ EndFeature

SpecAnchor == Init /\ [][NextAnchor]_vars

(***************************************************************************)
(* sequence_enumerator                                                     *)
(***************************************************************************)
MaxSequence == 3     \* items in the target sequence of a ligature rule

\* sequence_enumerator_impl(prefix, left, right, acc): what the loop over
\* left.iter() pushes to acc from the i-th glyph of left on
RECURSIVE SequenceEnumeratorImpl(_, _, _, _)
SequenceEnumeratorImpl(prefix, left, right, i) ==
    IF i > Len(left.g)
    THEN <<>>
    ELSE LET pushed == Append(prefix, left.g[i])
         IN (IF right # <<>>
             THEN SequenceEnumeratorImpl(pushed, Head(right), Tail(right), 1)
             ELSE <<pushed>>)
            \o SequenceEnumeratorImpl(prefix, left, right, i + 1)

\* sequence_enumerator with its result in the opposite order
SequenceEnumeratorBackwards(sequence) ==
    Reversed(SequenceEnumeratorImpl(<<>>, Head(sequence), Tail(sequence), 1))

\* sequence_enumerator(sequence), for a sequence of two items or more
SequenceEnumerator(sequence) ==
    SequenceEnumeratorImpl(<<>>, Head(sequence), Tail(sequence), 1)

CallSequenceEnumerator(sequence) ==
    Called("sequence_enumerator", <<sequence>>, SequenceEnumerator(sequence))

\* the items of a target sequence: a glyph, classes (one with a glyph
\* twice), and NULL, which iterates over nothing
TargetSequences ==
    UNION {[1..n -> {Glyph(1), Class(<<2, 3, 4>>), Class(<<8, 9>>), Class(<<5, 5>>), Null}]
              : n \in 2..MaxSequence}

NextSequence ==
    \E sequence \in TargetSequences : CallSequenceEnumerator(sequence)

SpecSequence == Init /\ [][NextSequence]_vars

(***************************************************************************)
(* Mark classes and mark attachment                                        *)
(***************************************************************************)
MaxMembers == 1      \* markClass statements that append to one mark class

MarkClassNames == {"TOP", "BOT"}

\* define_mark_class(class_decl), with the anchor given by coordinates
DefineMarkClass(name, glyphs) ==
    /\ Alive /\ pos = "top"
    /\ LET anchor == ResolveAnchor(anchor_defs, AnchorCoords(Format1(0)), cursor).ret
           members == MapGet(mark_classes, name, <<>>)
       IN /\ Len(members) < MaxMembers
          /\ mark_classes' = MapPut(mark_classes, name,
                                    Append(members, [glyphs |-> glyphs.g, anchor |-> anchor]))
    /\ last' = [Stmt("markClass", name) EXCEPT !.inputs = <<glyphs>>]
    /\ UNCHANGED <<errors, features, default_lang_systems, lookups, lookup_flags,
                   active_feature, script, aalt, required_features, excluded, pos,
                   block, defined, panic, result, anchor_defs, cursor, call,
                   gdef, mark_attach_class_id, mark_filter_sets>>

\* the glyphs of the members of a mark class, in the order the loops over
\* mark_class.members and glyphs.iter() meet them
RECURSIVE MemberGlyphs(_)
MemberGlyphs(members) ==
    IF members = <<>> THEN <<>> ELSE Head(members).glyphs \o MemberGlyphs(Tail(members))

\* an entry of a mark attachment subtable, added once
InsertEntry(entries, entry) ==
    IF entry \in SeqToSet(entries) THEN entries ELSE Append(entries, entry)

\* subtable.insert_mark(glyph, class_name, anchor)? for the glyphs from the
\* i-th on: stops at the first glyph the subtable holds under another class
RECURSIVE InsertMarks(_, _, _, _)
InsertMarks(entries, glyphs, class_name, i) ==
    IF i > Len(glyphs)
    THEN [entries |-> entries, err |-> None]
    ELSE LET prev == {k \in 1..Len(entries) :
                         /\ entries[k][1] = "mark"
                         /\ entries[k][2] = glyphs[i]
                         /\ entries[k][3] # class_name}
         IN IF prev # {}
            THEN [entries |-> entries, err |-> Some(entries[CHOOSE k \in prev : TRUE][3])]
            ELSE InsertMarks(InsertEntry(entries, <<"mark", glyphs[i], class_name>>),
                             glyphs, class_name, i + 1)

\* maybe_report_mark_class_conflict that reports nothing
MaybeReportNothing(errs, maybe_err) == errs

\* maybe_report_mark_class_conflict(range, maybe_err)
MaybeReportMarkClassConflict(errs, maybe_err) ==
    IF IsSome(maybe_err)
    THEN PushError(errs, "mark class includes glyph in class '" \o Unwrap(maybe_err)
                         \o "', already used in lookup.")
    ELSE errs

\* the body shared by add_mark_to_base, add_mark_to_lig and add_mark_to_mark
\* for one base glyph and one attachment: the marks of the class go into the
\* current lookup, then the base (in mark-to-ligature, also after a conflict)
AddMarkAttachment(node, kind, base, class_name) ==
    /\ RuleAllowed(node)
    /\ class_name \in DOMAIN mark_classes
    /\ LET e == EnsureCurrentLookupType(lookups, active_feature, lookup_flags, kind)
           marks == InsertMarks(Unwrap(e.L.current).rules,
                                MemberGlyphs(mark_classes[class_name]), class_name, 1)
           entries == IF kind = "GposType5"
                      THEN InsertEntry(marks.entries, <<"lig", base, class_name>>)
                      ELSE IF IsSome(marks.err) THEN marks.entries
                      ELSE InsertEntry(marks.entries, <<"base", base, class_name>>)
           L == [e.L EXCEPT !.current = Some([Unwrap(@) EXCEPT !.rules = entries])]
       IN /\ NumLookups(L) <= MaxLookups
          /\ Len(entries) <= MaxRules
          /\ PendingWithin(e.af)
          /\ errors' = MaybeReportMarkClassConflict(errors, marks.err)
          /\ Len(errors') <= MaxDiags
          /\ lookups' = L
          /\ active_feature' = e.af
          /\ block' = IF pos = "lookup" THEN Some(node) ELSE block
    /\ last' = [Stmt("pos_mark", kind) EXCEPT !.inputs = <<base, class_name>>]
    /\ UNCHANGED <<features, default_lang_systems, lookup_flags, script, aalt,
                   required_features, excluded, pos, defined, panic, result,
                   anchor_defs, cursor, call, mark_classes,
                   gdef, mark_attach_class_id, mark_filter_sets>>

\* add_mark_to_base(node)
AddMarkToBase(base, class_name) == AddMarkAttachment("Gpos4", "GposType4", base, class_name)

\* add_mark_to_lig(node), for a ligature of one component
AddMarkToLig(base, class_name) == AddMarkAttachment("Gpos5", "GposType5", base, class_name)

\* add_mark_to_mark(node)
AddMarkToMark(base, class_name) == AddMarkAttachment("Gpos6", "GposType6", base, class_name)


\* markClass statements, then one feature block of mark attachment rules,
\* then the passes over the whole file
NextMark ==
    \/ \E n \in MarkClassNames, g \in {Glyph(1), Class(<<2, 1>>)} :
          features = EmptyMap /\ DefineMarkClass(n, g)
    \/ \E tag \in FeatureTags : features = EmptyMap /\ StartFeature(tag)
    \/ \E b \in {3}, c \in MarkClassNames : AddMarkToBase(b, c)
    \/ \E b \in {3}, c \in MarkClassNames : AddMarkToLig(b, c)
    \/ \E b \in {3}, c \in MarkClassNames : AddMarkToMark(b, c)
    \/ EndFeature
    \/ Finalize
    \/ Build

SpecMark == Init /\ [][NextMark]_vars

(***************************************************************************)
(* Glyph ranges in class literals                                          *)
(***************************************************************************)
MaxRangeEnd == 4     \* largest CID or name suffix at an end of a range

\* the glyph map of the font: CIDs 1, 2 and 4 and the names with suffix 1
\* and 3 are in the font; keys are <<kind, n>>
GlyphMap ==
    [k \in {<<"Cid", 1>>, <<"Cid", 2>>, <<"Cid", 4>>, <<"GlyphName", 1>>, <<"GlyphName", 3>>}
        |-> IF k[1] = "Cid" THEN k[2] ELSE k[2] + 10]

\* glyph_range::cid and glyph_range::named: the members from start to end,
\* by integer or by name suffix
RangeMembers(start, end) == [i \in 1..(end - start + 1) |-> start + i - 1]

\* add_glyphs_from_range that skips the members the font lacks
AddGlyphsFromRangeSkipping(range, out, errs) ==
    IF range.start.kind # range.end.kind
    THEN [out |-> out, errors |-> PushError(errs, "Invalid types in glyph range")]
    ELSE LET kind == range.start.kind
             here == SelectSeq(RangeMembers(range.start.n, range.end.n),
                               LAMBDA n : <<kind, n>> \in DOMAIN GlyphMap)
         IN [out |-> out \o [i \in 1..Len(here) |-> GlyphMap[<<kind, here[i]>>]],
             errors |-> errs]

\* add_glyphs_from_range(range, out): the glyphs after the call and the
\* diagnostics after it
AddGlyphsFromRange(range, out, errs) ==
    IF range.start.kind # range.end.kind
    THEN [out |-> out, errors |-> PushError(errs, "Invalid types in glyph range")]
    ELSE LET kind == range.start.kind
             members == RangeMembers(range.start.n, range.end.n)
             here == SelectSeq(members, LAMBDA n : <<kind, n>> \in DOMAIN GlyphMap)
         IN [out |-> out \o [i \in 1..Len(here) |-> GlyphMap[<<kind, here[i]>>]],
             errors |-> PushErrors(errs,
                 [i \in 1..Len(members) |->
                     IF <<kind, members[i]>> \in DOMAIN GlyphMap THEN ""
                     ELSE "Range member '" \o ToString(members[i])
                          \o "' does not exist in font"])]

\* resolve_glyph_class_literal(class) for a literal of one range, after CID 1
\* when lead is true
ResolveGlyphClassLiteral(lead, range) ==
    /\ Alive
    /\ LET glyphs == IF lead THEN <<GlyphMap[<<"Cid", 1>>]>> ELSE <<>>
           r == AddGlyphsFromRange(range, glyphs, errors)
       IN /\ Len(r.errors) <= MaxDiags
          /\ errors' = r.errors
          /\ call' = [fn |-> "resolve_glyph_class_literal", args |-> <<lead, range>>,
                      ret |-> r.out]
    /\ last' = Stmt("glyph_class", "")
    /\ UNCHANGED <<features, default_lang_systems, lookups, lookup_flags, active_feature,
                   script, aalt, required_features, excluded, pos, block, defined,
                   panic, result, anchor_defs, cursor, mark_classes,
                   gdef, mark_attach_class_id, mark_filter_sets>>

\* class literals of one range, its ends ordered, of either kind each
NextRange ==
    \E lead \in BOOLEAN, sk, ek \in {"Cid", "GlyphName"}, s, e \in 1..MaxRangeEnd :
        /\ s <= e
        /\ ResolveGlyphClassLiteral(lead, [start |-> [kind |-> sk, n |-> s],
                                           end |-> [kind |-> ek, n |-> e]])

SpecRange == Init /\ [][NextRange]_vars

\* ---------------------------------------------------------------------------
\* Mark attachment classes: lookupflag MarkAttachmentType [..];
\* ---------------------------------------------------------------------------

MaxClassLen == 2     \* glyphs written in the class of one MarkAttachmentType

\* the classes a source can write over two glyphs: every order, with and
\* without repeated members
AttachClasses ==
    UNION {[1..n -> {1, 2}] : n \in 1..MaxClassLen}

NextMarkAttach ==
    \/ \E tag \in FeatureTags : features = EmptyMap /\ StartFeature(tag)
    \/ \E g \in AttachClasses : SetLookupFlagMarkAttachmentType(g)
    \/ EndFeature
    \/ Finalize
    \/ Build

SpecMarkAttach == Init /\ [][NextMarkAttach]_vars

\* ---------------------------------------------------------------------------
\* GDEF: markClass statements and a GDEF table block, then feature blocks of
\* mark-to-base rules, then the passes over the whole file
\* ---------------------------------------------------------------------------

NextGdef ==
    \/ \E n \in MarkClassNames :
          /\ features = EmptyMap /\ gdef = None
          /\ DefineMarkClass(n, IF n = "TOP" THEN Glyph(1) ELSE Glyph(3))
    \/ \E t \in {<<FALSE, None, None>>, <<TRUE, None, None>>,
                  <<FALSE, Some(<<3>>), Some(<<1>>)>>, <<FALSE, Some(<<3>>), Some(<<3>>)>>} :
          features = EmptyMap /\ gdef = None /\ ResolveGdef(t[1], t[2], t[3])
    \/ \E tag \in FeatureTags : StartFeature(tag)
    \/ \E b \in {3, 4}, c \in MarkClassNames : AddMarkToBase(b, c)
    \/ EndFeature
    \/ Finalize
    \/ Build

SpecGdef == Init /\ [][NextGdef]_vars

(***************************************************************************)
(* Properties                                                              *)
(***************************************************************************)
AnyError(errs) == \E i \in 1..Len(errs) : IsError(errs[i])
AnyWarning(errs) == \E i \in 1..Len(errs) : ~IsError(errs[i])

\* C1: build() fails, returning the whole diagnostic list, exactly when some
\* accumulated diagnostic is an error; otherwise it returns a Compilation
\* whose warnings are the accumulated diagnostics.
C1_BuildFailsIffError ==
    pos = "built" =>
        LET r == Unwrap(result)
        IN /\ r.ok = ~AnyError(errors)
           /\ IF r.ok THEN r.warnings = errors ELSE r.diagnostics = errors

\* a build that failed on a list holding a warning and an error
C1_Witness ==
    /\ pos = "built"
    /\ IsSome(result)
    /\ ~Unwrap(result).ok
    /\ AnyWarning(errors)
    /\ Len(Unwrap(result).diagnostics) = 2

\* the lookup behind an id of the feature map
ValidId(id) ==
    \/ id.t = "GSUB" /\ id.i < Len(lookups.gsub)
    \/ id.t = "GPOS" /\ id.i < Len(lookups.gpos)

\* C2: after compile(), every lookup id in every feature's list is GSUB(i)
\* or GPOS(j) of a lookup that is in the store; no Empty id appears.
C2_FeatureIdsExist ==
    pos = "done" =>
        \A k \in DOMAIN features : \A i \in 1..Len(features[k]) : ValidId(features[k][i])

\* a compile with an aalt feature that inserted a lookup, a named lookup and
\* a feature listing a GPOS id and a shifted GSUB id
C2_Witness ==
    /\ pos = "done"
    /\ IsSome(aalt)
    /\ "X" \in DOMAIN lookups.named
    /\ \E k \in DOMAIN features :
          /\ k[3] = "liga"
          /\ \E i, j \in 1..Len(features[k]) :
                /\ features[k][i].t = "GPOS"
                /\ features[k][j].t = "GSUB" /\ features[k][j].i >= 1


\* the stored lookup behind a valid id
LookupOf(id) ==
    IF id.t = "GSUB" THEN lookups.gsub[id.i + 1] ELSE lookups.gpos[id.i + 1]

\* the list lst holds, at positions x and b, the id of a named lookup that
\* was defined at top level and the id of an unnamed lookup, built from the
\* feature's own rules, that was being populated when the name was referenced
RefAfterRules(lst, x, b) ==
    /\ ValidId(lst[x]) /\ ValidId(lst[b])
    /\ IsSome(LookupOf(lst[x]).name)
    /\ MapGet(defined, Unwrap(LookupOf(lst[x]).name), "") = "top"
    /\ ~IsSome(LookupOf(lst[b]).name)
    /\ Unwrap(LookupOf(lst[x]).name) \in LookupOf(lst[b]).refs

\* C6 as stated: in the final list of a feature whose rules are followed by
\* a reference to a top-level named lookup X, the id of the lookup built from
\* the feature's own rules comes first and X's id follows.
C6_OwnRulesThenReference ==
    pos = "done" =>
        \A k \in DOMAIN features : \A x, b \in 1..Len(features[k]) :
            RefAfterRules(features[k], x, b) => b < x

\* C6 amended: the final list is sorted by lookup id, so when both ids are
\* of one table, the id of X (defined earlier, hence smaller) comes first
\* and the id of the lookup built from the feature's own rules follows.
C6_ReferenceThenOwnRules ==
    pos = "done" =>
        \A k \in DOMAIN features : \A x, b \in 1..Len(features[k]) :
            RefAfterRules(features[k], x, b) /\ features[k][x].t = features[k][b].t
                => x < b

\* lookup X {..} X; feature liga { sub ..; lookup X; } liga;  compiled: two
\* GSUB ids, X's and the in-feature one
C6_Witness ==
    /\ pos = "done"
    /\ \E k \in DOMAIN features :
          /\ features[k] = <<Gsub(0), Gsub(1)>>
          /\ RefAfterRules(features[k], 1, 2)
          /\ last.op = "finalize"

\* C7: no lookup is current when a feature block begins: top-level lookup
\* blocks and feature blocks finish their lookup before they end, and the
\* assertion of start_feature never fails.
C7_NoLookupAtStartOfFeature ==
    /\ panic # "no lookup should be active at start of feature"
    /\ pos = "top" => ~HasCurrent(lookups) /\ lookups.current_name = None
    /\ last.op = "start_feature" => ~HasCurrent(lookups)

\* a feature block begins after a top-level lookup block and a feature block
\* have stored their lookups
C7_Witness ==
    /\ last.op = "start_feature"
    /\ pos = "feature"
    /\ "X" \in DOMAIN lookups.named
    /\ MapGet(defined, "X", "") = "top"
    /\ Len(lookups.gsub) + Len(lookups.gpos) = 2

\* C8: inside a named lookup block no rule statement finalizes the lookup
\* being populated: the block's rules land in one lookup, so the stores do
\* not grow between two points of the same block.
C8_NamedBlockOneLookup ==
    [][pos = "lookup" /\ pos' = "lookup"
          => /\ Len(lookups'.gsub) = Len(lookups.gsub)
             /\ Len(lookups'.gpos) = Len(lookups.gpos)]_vars


\* how many lookups the store holds
NumStored(L) == Len(L.gsub) + Len(L.gpos)

\* C3: when a rule of kind K is added and there is no current lookup, or the
\* current lookup's kind differs from K, or its flags differ from the lookup
\* flags in effect, the current lookup is finalized and the rule goes into a
\* fresh lookup that carries the flags in effect.
C3_FreshLookupOnKindOrFlagsChange ==
    [][last'.op \in {"sub", "pos"} /\ last'.arg \in {"GsubType1", "GsubType2", "GposType2"}
          => LET K == last'.arg
                 cur == Unwrap(lookups.current)
                 differs == \/ ~HasCurrent(lookups)
                            \/ cur.kind # K
                            \/ cur.flags # lookup_flags.flags
                            \/ cur.mfs # lookup_flags.mark_filter_set
             IN differs =>
                   /\ NumStored(lookups') =
                         NumStored(lookups) + (IF HasCurrent(lookups) THEN 1 ELSE 0)
                   /\ Unwrap(lookups'.current).kind = K
                   /\ Unwrap(lookups'.current).flags = lookup_flags.flags
                   /\ Unwrap(lookups'.current).mfs = lookup_flags.mark_filter_set]_vars

\* C4: in every feature block, `script S` with S not the script selected in
\* the block closes the current lookup and makes (S, dflt) the current
\* system of the active feature.
C4_ScriptSwitchesSystem ==
    [][last'.op = "script"
          => LET S == last'.arg
                 before == Unwrap(active_feature).current_system
             IN (~IsSome(before) \/ Unwrap(before)[1] # S) =>
                   /\ ~HasCurrent(lookups')
                   /\ Unwrap(active_feature').current_system
                         = Some(LanguageSystem(S, LANG_DFLT))]_vars

\* s is a prefix of t
IsPrefix(s, t) == Len(s) <= Len(t) /\ \A i \in 1..Len(s) : s[i] = t[i]

\* C5 as stated: in the final feature map, the list of every key of a
\* feature that was not introduced with exclude_dflt starts with the ids the
\* feature has under (DFLT, dflt).
C5_DefaultIdsArePrefix ==
    pos = "done" =>
        \A k \in DOMAIN features :
            LET d == ToFeatureKey(LanguageSystem(SCRIPT_DFLT, LANG_DFLT), k[3])
            IN (k # d /\ k \notin excluded /\ d \in DOMAIN features)
                  => IsPrefix(features[d], features[k])

\* the system whose pending ids a system inherits when it is first selected
ParentSystem(sys) ==
    IF sys[2] = LANG_DFLT THEN LanguageSystem(SCRIPT_DFLT, LANG_DFLT)
    ELSE LanguageSystem(sys[1], LANG_DFLT)

\* C5 amended: when a script or language statement without exclude_dflt
\* selects a system for the first time in a feature block, the ids pending
\* for that system start with the ids pending, at that moment, for the
\* dflt language of its script (for a script: for (DFLT, dflt)).
C5_InheritsWhenFirstSelected ==
    [][(last'.op \in {"script", "language"} /\ ~last'.x
           /\ Unwrap(active_feature').current_system # Unwrap(active_feature).current_system)
          => LET sys == Unwrap(Unwrap(active_feature').current_system)
                 pre == Unwrap(active_feature).lookups
                 post == Unwrap(active_feature').lookups
             IN sys \notin DOMAIN pre =>
                   /\ sys \in DOMAIN post
                   /\ IsPrefix(MapGet(post, ParentSystem(sys), <<>>), post[sys])]_vars

\* feature liga { sub a by b; script latn; ...: (latn, dflt) has just been
\* selected and holds the id pending for (DFLT, dflt)
C5_Witness ==
    /\ last.op = "script"
    /\ IsSome(active_feature)
    /\ LET af == Unwrap(active_feature)
           d == LanguageSystem(SCRIPT_DFLT, LANG_DFLT)
       IN /\ af.current_system = Some(LanguageSystem("latn", LANG_DFLT))
          /\ d \in DOMAIN af.lookups
          /\ af.lookups[d] # <<>>
          /\ af.lookups[LanguageSystem("latn", LANG_DFLT)] = af.lookups[d]


\* the number of lookups a step puts into the GSUB store
Inserted == Len(lookups'.gsub) - Len(lookups.gsub)

\* C9: aalt finalization that inserts n lookups increases every GSUB id of
\* every feature's list by exactly n and leaves every GPOS id as it was;
\* without an aalt feature nothing is inserted and no id changes.
C9_GsubIdsShiftedGposKept ==
    [][last'.op = "finalize"
          => /\ ~IsSome(aalt) => Inserted = 0
             /\ \A k \in DOMAIN features :
                   /\ k \in DOMAIN features'
                   /\ SeqToSet(features'[k]) =
                         {IF id.t = "GSUB" THEN Gsub(id.i + Inserted) ELSE id :
                             id \in SeqToSet(features[k])}]_vars

\* an aalt feature inserted a lookup; a feature lists a GPOS id, unchanged,
\* and a GSUB id that moved
C9_Witness ==
    /\ pos = "done"
    /\ IsSome(aalt)
    /\ Len(lookups.gsub) >= 2
    /\ lookups.gsub[1].rules # <<>>
    /\ \E k \in DOMAIN features :
          /\ k[3] = "liga"
          /\ features[k] = <<Gpos(0), Gsub(1)>>

\* the default language systems of the file
DefaultSystems ==
    IF default_lang_systems = {} THEN {LanguageSystem(SCRIPT_DFLT, LANG_DFLT)}
    ELSE default_lang_systems

\* C10: finalization of a file with an aalt feature puts the n aalt lookups
\* at GSUB indices 0..n-1, in front of the lookups that were there, and
\* maps (script, language, aalt) to exactly those n ids for every default
\* language system.
C10_AaltLookupsInFront ==
    [][last'.op = "finalize" /\ IsSome(aalt)
          => /\ Inserted >= 0
             /\ \A i \in 1..Len(lookups.gsub) : lookups'.gsub[i + Inserted] = lookups.gsub[i]
             /\ lookups'.gpos = lookups.gpos
             /\ \A sys \in DefaultSystems :
                   /\ ToFeatureKey(sys, AALT) \in DOMAIN features'
                   /\ features'[ToFeatureKey(sys, AALT)]
                         = [i \in 1..Inserted |-> Gsub(i - 1)]]_vars

\* languagesystem DFLT dflt; languagesystem latn dflt; an aalt feature whose
\* two lookups precede the lookup of the feature it refers to
C10_Witness ==
    /\ pos = "done"
    /\ default_lang_systems = {LanguageSystem("DFLT", "dflt"), LanguageSystem("latn", "dflt")}
    /\ ToFeatureKey(LanguageSystem("latn", "dflt"), AALT) \in DOMAIN features
    /\ features[ToFeatureKey(LanguageSystem("latn", "dflt"), AALT)] = <<Gsub(0), Gsub(1)>>
    /\ Len(lookups.gsub) = 3
    /\ lookups.gsub[1].kind = "GsubType1"
    /\ lookups.gsub[2].kind = "GsubType3"


\* the first alternate of glyph t among the rules of a lookup, 0 if none
FirstAltIn(rules, t) ==
    LET at == {i \in 1..Len(rules) : rules[i][1] = t}
    IN IF at = {} THEN 0
       ELSE rules[CHOOSE i \in at : \A j \in at : i <= j][2]

\* the GSUB lookups, by index, that the lists of a referenced feature hold
\* and that give glyph t an alternate; their index is their source order
ReferencedFor(t) ==
    {i \in 1..Len(lookups.gsub) :
        /\ lookups.gsub[i].kind \in {"GsubType1", "GsubType3"}
        /\ FirstAltIn(lookups.gsub[i].rules, t) # 0
        /\ \E k \in DOMAIN features :
              /\ k[3] \in SeqToSet(Unwrap(aalt).features)
              /\ Gsub(i - 1) \in SeqToSet(features[k])}

\* the alternate of t first met in source order: in the aalt block itself,
\* else in the first lookup of the referenced features that has one
FirstObserved(t) ==
    IF t \in DOMAIN Unwrap(aalt).all_alts THEN Unwrap(aalt).all_alts[t][1]
    ELSE IF ReferencedFor(t) = {} THEN 0
    ELSE FirstAltIn(lookups.gsub[CHOOSE i \in ReferencedFor(t) :
                                    \A j \in ReferencedFor(t) : i <= j].rules, t)

\* C11: in the aalt lookups that finalization materializes, the first
\* alternate of every target glyph is the one first met in source order:
\* in the aalt block itself, else in the referenced features.
C11_FirstAlternateInSourceOrder ==
    [][last'.op = "finalize" /\ IsSome(aalt)
          => \A i \in 1..(Len(lookups'.gsub) - Len(lookups.gsub)) :
                \A t \in {lookups'.gsub[i].rules[j][1] : j \in 1..Len(lookups'.gsub[i].rules)} :
                    FirstAltIn(lookups'.gsub[i].rules, t) = FirstObserved(t)]_vars


\* the ids a feature holds: in the feature map or pending in the open block
Registered(feats, afopt) ==
    UNION {SeqToSet(feats[k]) : k \in DOMAIN feats}
        \cup (IF IsSome(afopt)
              THEN UNION {SeqToSet(Unwrap(afopt).lookups[sys]) : sys \in DOMAIN Unwrap(afopt).lookups}
              ELSE {})

\* the lookup a store holds under an id
StoredAt(L, id) == IF id.t = "GSUB" THEN L.gsub[id.i + 1] ELSE L.gpos[id.i + 1]

\* the names of the lookup blocks written outside any feature
TopLevelNames == {n \in DOMAIN defined : defined[n] = "top"}

\* the systems an id added now is pending for
PendingTargets(af) ==
    IF IsSome(af.current_system) THEN {Unwrap(af.current_system)}
    ELSE DefaultSystems

\* C12: the end of a lookup block outside any feature records its name and
\* id and registers the id with no feature; the id of such a block is
\* registered only by a `lookup NAME;` statement; the end of a lookup block
\* inside a feature appends the block's id to that feature.
C12_TopLevelBlockNotRegistered ==
    [][/\ (last'.op = "end_lookup_block" /\ ~IsSome(active_feature))
            => /\ features' = features
               /\ active_feature' = None
               /\ Unwrap(lookups.current_name) \in DOMAIN lookups'.named
               /\ HasCurrent(lookups) =>
                     StoredAt(lookups', lookups'.named[Unwrap(lookups.current_name)]).name
                         = lookups.current_name
       /\ last'.op # "finalize"
            => \A n \in TopLevelNames \cap DOMAIN lookups'.named :
                  lookups'.named[n] \in Registered(features', active_feature')
                                          \ Registered(features, active_feature)
                     => last' = Stmt("lookup_ref", n)
       /\ (last'.op = "end_lookup_block" /\ IsSome(active_feature) /\ HasCurrent(lookups))
            => LET id == lookups'.named[Unwrap(lookups.current_name)]
                   pre == Unwrap(active_feature).lookups
                   post == Unwrap(active_feature').lookups
               IN /\ id \notin Registered(features, active_feature)
                  /\ \A sys \in PendingTargets(Unwrap(active_feature)) :
                        /\ sys \in DOMAIN post
                        /\ post[sys] = Append(MapGet(pre, sys, <<>>), id)]_vars

\* lookup X {..} X; has ended outside any feature after a feature block
\* with a rule: X names a stored lookup that no feature lists
C12_Witness ==
    /\ last.op = "end_lookup_block"
    /\ pos = "top"
    /\ "X" \in DOMAIN lookups.named
    /\ lookups.named["X"].t = "GSUB"
    /\ features # EmptyMap
    /\ lookups.named["X"] \notin Registered(features, active_feature)


\* C13: `language L [exclude_dflt] [required]` closes the current lookup,
\* appending its id under the system current before the statement, makes
\* (current script, L) the current system and, with `required`, puts the
\* key (current script, L, feature tag) into the required features, which
\* it leaves as they are otherwise; build() hands the set to the Compilation.
C13_LanguageSwitchesAndMarksRequired ==
    [][/\ last'.op = "language"
            => LET s == IF IsSome(script) THEN Unwrap(script) ELSE SCRIPT_DFLT
                   sys == LanguageSystem(s, last'.arg)
                   af == Unwrap(active_feature)
                   post == Unwrap(active_feature').lookups
               IN /\ ~HasCurrent(lookups')
                  /\ Unwrap(active_feature').current_system = Some(sys)
                  /\ HasCurrent(lookups) =>
                        /\ NumStored(lookups') = NumStored(lookups) + 1
                        /\ \A t \in PendingTargets(af) :
                              post[t] = Append(MapGet(af.lookups, t, <<>>),
                                               Gsub(Len(lookups.gsub)))
                  /\ required_features' =
                        IF last'.r THEN required_features \cup {ToFeatureKey(sys, af.tag)}
                        ELSE required_features
       /\ last'.op = "build" /\ Unwrap(result').ok
            => Unwrap(result').required_features = required_features]_vars

\* feature liga { script latn; sub a by b; language TRK required; } liga;
\* built: the lookup is listed under (latn, dflt) and (latn, TRK), and
\* (latn, TRK, liga) is required
C13_Witness ==
    /\ pos = "built"
    /\ Unwrap(result).ok
    /\ Unwrap(result).required_features = {<<"latn", "TRK", "liga">>}
    /\ <<"latn", "TRK", "liga">> \in DOMAIN features
    /\ features[<<"latn", "TRK", "liga">>] = <<Gsub(0)>>
    /\ <<"latn", "dflt", "liga">> \in DOMAIN features


\* the value fields of a value record
ValueFields == {"x_placement", "y_placement", "x_advance", "y_advance"}

\* the record with a single zero advance, on the y axis in a vertical feature
ZeroAdvance(vert) ==
    [x_placement |-> None, y_placement |-> None,
     x_advance |-> IF vert THEN None ELSE <<0>>,
     y_advance |-> IF vert THEN <<0>> ELSE None, device |-> FALSE]

\* C14: for_pair_pos(R, vert) is clear_zeros(R) if R has a non-zero value;
\* if R is not null, has no device table and its set values are all zero,
\* it is the record whose only field is a zero x_advance (y_advance when
\* vert); for every R it is one of the two.
C14_ForPairPos ==
    call.fn = "for_pair_pos" =>
        LET R == call.args[1]
            vert == call.args[2]
            set == {f \in ValueFields : R[f] # <<>>}
            cleared == [f \in DOMAIN R |->
                           IF f \in ValueFields /\ R[f] = <<0>> THEN <<>> ELSE R[f]]
        IN /\ (\E f \in set : R[f] # <<0>>) => call.ret = cleared
           /\ (set # {} /\ ~R.device /\ \A f \in set : R[f] = <<0>>)
                 => call.ret = ZeroAdvance(vert)
           /\ call.ret = cleared \/ call.ret = ZeroAdvance(vert)

\* for_pair_pos in a vertical feature of a record whose values are zero
\* placements: the result is a zero y_advance
C14_Witness ==
    /\ call.fn = "for_pair_pos"
    /\ call.args = <<[x_placement |-> <<0>>, y_placement |-> <<0>>, x_advance |-> <<>>,
                      y_advance |-> <<>>, device |-> FALSE], TRUE>>
    /\ call.ret.y_advance = <<0>>
    /\ call.ret.x_placement = <<>>

\* C15: clear_zeros applied to its own result changes nothing; it makes
\* every value field that is Some(0) None and leaves the other value fields
\* and the device tables as they are.
C15_ClearZerosIdempotent ==
    call.fn = "clear_zeros" =>
        LET R == call.args[1]
        IN /\ ClearZeros(call.ret) = call.ret
           /\ \A f \in ValueFields :
                 call.ret[f] = IF R[f] = <<0>> THEN <<>> ELSE R[f]
           /\ call.ret.device = R.device

\* clear_zeros of a record with zero and non-zero values and a device table
C15_Witness ==
    /\ call.fn = "clear_zeros"
    /\ call.args[1] = [x_placement |-> <<0>>, y_placement |-> <<1>>, x_advance |-> <<-1>>,
                       y_advance |-> <<0>>, device |-> TRUE]
    /\ call.ret # call.args[1]


\* the rules a rule statement has just added to the current lookup
AddedRules ==
    LET new == Unwrap(lookups'.current).rules
    IN IF HasCurrent(lookups) /\ Unwrap(lookups.current).kind = Unwrap(lookups'.current).kind
       THEN SubSeq(new, Len(Unwrap(lookups.current).rules) + 1, Len(new))
       ELSE new

\* C16: a single substitution, plain or inline in a contextual or reverse
\* contextual rule, whose target is NULL, or a glyph with a class as
\* replacement, or a class with a class of another length, pushes an error
\* and adds no substitution (the plain statement leaves the lookups as they
\* are); any other pushes nothing and adds one substitution per target glyph.
C16_SingleSubValidated ==
    [][last'.op \in {"sub", "sub_contextual", "rsub"} /\ last'.inputs # <<>>
          => LET T == last'.inputs[1]
                 R == last'.inputs[2]
                 bad == \/ T.t = "Null"
                        \/ T.t = "Glyph" /\ R.t = "Class"
                        \/ T.t = "Class" /\ R.t = "Class" /\ Len(T.g) # Len(R.g)
                 subs == IF last'.op = "sub" THEN AddedRules ELSE AddedRules[1].inline
             IN IF bad
                THEN /\ Len(errors') = Len(errors) + 1
                     /\ IsError(errors'[Len(errors')])
                     /\ SubSeq(errors', 1, Len(errors)) = errors
                     /\ last'.op = "sub" =>
                           lookups' = lookups /\ active_feature' = active_feature
                     /\ last'.op = "rsub" => lookups' = lookups
                     /\ last'.op = "sub_contextual" => subs = <<>>
                ELSE /\ errors' = errors
                     /\ Len(subs) = Len(T.g)
                     /\ \A i \in 1..Len(T.g) : subs[i][1] = T.g[i]]_vars

\* sub [a b] by [c]; has just been rejected after sub [a b] by [b c]; was
\* accepted: one error, and the two rules of the first statement
C16_Witness ==
    /\ last.op = "sub"
    /\ last.arg = "rejected"
    /\ last.inputs = <<Class(<<1, 2>>), Class(<<3>>)>>
    /\ Len(errors) = 1
    /\ HasCurrent(lookups)
    /\ Unwrap(lookups.current).rules = <<<<1, 2>>, <<2, 3>>>>

\* the diagnostics the last step pushed
NewErrors == SubSeq(errors', Len(errors) + 1, Len(errors'))

\* whether the reference to a named anchor at position start finds a
\* definition that stands strictly before it
DefinedBefore(item, start) ==
    item.n \in DOMAIN anchor_defs /\ anchor_defs[item.n].pos < start

\* C17: a reference to a named anchor resolves to the anchor bound to the
\* name exactly when the name is defined and the reference stands strictly
\* after the start of the definition; any other reference resolves to no
\* anchor and pushes the error "anchor is not defined".
C17_NamedAnchorDefinedBefore ==
    [][last'.op = "pos" /\ last'.arg = "GposType3"
          => LET named == {i \in 1..2 : call'.args[i].t = "name"}
                 failed == {i \in named : ~DefinedBefore(call'.args[i], cursor' + i - 1)}
             IN /\ \A i \in named \ failed :
                      call'.ret[i] = Some(anchor_defs[call'.args[i].n].anchor)
                /\ \A i \in failed : call'.ret[i] = None
                /\ Len(NewErrors) = Cardinality(failed)
                /\ \A k \in 1..Len(NewErrors) :
                      NewErrors[k] = DiagError("anchor is not defined")
                /\ SubSeq(errors', 1, Len(errors)) = errors]_vars

\* anchorDef 0 0 A; stands at offset 1, and a cursive rule names A twice: at
\* offset 1, where it is not defined yet, and at offset 2, where it is
C17_Witness ==
    /\ last.op = "pos" /\ last.arg = "GposType3"
    /\ "A" \in DOMAIN anchor_defs
    /\ anchor_defs["A"] = [anchor |-> Format1(0), pos |-> 1]
    /\ cursor = 1
    /\ call.args = <<AnchorNamed("A"), AnchorNamed("A")>>
    /\ call.ret = <<None, Some(Format1(0))>>
    /\ errors = <<DiagError("anchor is not defined")>>

\* C18: a name bound in the anchor registry keeps its anchor and position
\* through every later statement, and a second definition of the name
\* pushes the error "duplicate anchor definition".
C18_RegistryAppendOnly ==
    [][/\ \A n \in DOMAIN anchor_defs :
             n \in DOMAIN anchor_defs' /\ anchor_defs'[n] = anchor_defs[n]
       /\ last'.op = "anchorDef" /\ last'.arg \in DOMAIN anchor_defs
             /\ last'.inputs[1].format \in {1, 2}
          => NewErrors = <<DiagError("duplicate anchor definition")>>]_vars

\* the product of the sizes of the items of S from position i on
RECURSIVE SizeFrom(_, _)
SizeFrom(S, i) == IF i > Len(S) THEN 1 ELSE Len(S[i].g) * SizeFrom(S, i + 1)

\* C19: sequence_enumerator returns one tuple per choice of a member at each
\* position, as many as the product of the item sizes (none when an item is
\* empty), each as long as the sequence, in lexicographic order with the
\* last position varying fastest and the members in their source order.
C19_SequenceEnumeratorLexicographic ==
    call.fn = "sequence_enumerator" =>
        LET S == call.args[1]
            R == call.ret
        IN /\ Len(R) = SizeFrom(S, 1)
           /\ \A k \in 1..Len(R) :
                 /\ Len(R[k]) = Len(S)
                 /\ \A i \in 1..Len(S) :
                       R[k][i] = S[i].g[(((k - 1) \div SizeFrom(S, i + 1)) % Len(S[i].g)) + 1]

\* the sequence 1 [2 3 4] [8 9] gives its six tuples in order
C19_Witness ==
    /\ call.fn = "sequence_enumerator"
    /\ call.args = <<<<Glyph(1), Class(<<2, 3, 4>>), Class(<<8, 9>>)>>>>
    /\ call.ret = <<<<1, 2, 8>>, <<1, 2, 9>>, <<1, 3, 8>>, <<1, 3, 9>>, <<1, 4, 8>>, <<1, 4, 9>>>>

\* the mark entries of a lookup that give one glyph two classes
TwoClasses(lookup) ==
    {p \in SeqToSet(lookup.rules) \X SeqToSet(lookup.rules) :
        /\ p[1][1] = "mark" /\ p[2][1] = "mark"
        /\ p[1][2] = p[2][2]
        /\ p[1][3] # p[2][3]}

\* whether the lookup holds, under another class, a glyph of the class
HeldUnderOtherClass(lookup, class_name) ==
    \E k \in 1..Len(lookup.rules), g \in SeqToSet(MemberGlyphs(mark_classes[class_name])) :
        /\ lookup.rules[k][1] = "mark"
        /\ lookup.rules[k][2] = g
        /\ lookup.rules[k][3] # class_name

C24_FlagsStartEmptyInFeature ==
    [][/\ IsSome(active_feature') /\ last'.op \notin {"lookupflag_number", "lookupflag_named"}
          => \/ lookup_flags'.flags = 0 /\ lookup_flags'.mark_filter_set = None
             \/ IsSome(active_feature) /\ lookup_flags' = lookup_flags
       /\ IsSome(active_feature') /\ last'.op \in {"sub", "pos"}
             /\ NumLookups(lookups') > NumLookups(lookups)
          => /\ Unwrap(lookups'.current).flags = lookup_flags.flags
             /\ Unwrap(lookups'.current).mfs = lookup_flags.mark_filter_set]_vars

\* a top-level lookup block had a mark filtering set, and the first rule of
\* the feature block that follows it started a lookup with empty flags
C24_Witness ==
    /\ pos = "feature"
    /\ last.op \in {"sub", "pos"}
    /\ defined # EmptyMap
    /\ NumStored(lookups) = 1
    /\ \E L \in SeqToSet(lookups.gsub) \cup SeqToSet(lookups.gpos) : L.mfs # None
    /\ HasCurrent(lookups)
    /\ Unwrap(lookups.current).flags = 0
    /\ Unwrap(lookups.current).mfs = None
    /\ Len(Unwrap(lookups.current).rules) = 1

\* C29: a language statement that no script statement of the same feature
\* block precedes (here, the first statement of the block) switches the
\* current system to (DFLT, L), whatever scripts earlier blocks selected.
C29_ScriptLocalToFeature ==
    [][last.op = "start_feature" /\ last'.op = "language"
          => Unwrap(active_feature').current_system
                = Some(LanguageSystem(SCRIPT_DFLT, last'.arg))]_vars

\* C30: after a numeric lookupflag statement the flags are the bits of the
\* number and no mark filtering set is in effect.
C30_NumericFlagsReplaceAll ==
    [][last'.op = "lookupflag_number"
          => /\ lookup_flags'.flags \in FlagNumbers
             /\ lookup_flags'.mark_filter_set = None]_vars

\* C25: after a lookup reference inside a feature no lookup is current: the
\* reference closes the lookup the rules before it built, so a rule that
\* follows starts a fresh lookup.
C25_ReferenceClosesCurrentLookup ==
    [][last'.op = "lookup_ref" => ~HasCurrent(lookups')]_vars

\* C26: after the passes that end compile(), the list of every feature key
\* holds no id twice, and for the keys the walk filled it holds exactly the
\* ids the walk added, the GSUB ones moved by the number of aalt lookups.
C26_DedupKeepsDistinctIds ==
    [][last'.op = "finalize"
          => /\ \A k \in DOMAIN features' : \A i, j \in 1..Len(features'[k]) :
                   features'[k][i] = features'[k][j] => i = j
             /\ \A k \in DOMAIN features :
                   /\ k \in DOMAIN features'
                   /\ SeqToSet(features'[k]) =
                         {AdjustIfGsub(id, Inserted) : id \in SeqToSet(features[k])}]_vars

\* lookup X {..} X; feature liga { lookup X; lookup X; } liga; compiled with
\* an aalt lookup in front: the key of liga holds X's moved id once
C26_Witness ==
    /\ pos = "done"
    /\ last.op = "finalize"
    /\ IsSome(aalt)
    /\ Len(lookups.gsub) = 2
    /\ lookups.gsub[2].name = Some("X")
    /\ \E k \in DOMAIN features : k[3] = "liga" /\ features[k] = <<Gsub(1)>>

RangeMembersInFont(here) ==
    LET range == call'.args[2]
    IN {n \in range.start.n..range.end.n :
           (<<range.start.kind, n>> \in DOMAIN GlyphMap) = here}

\* C28: a range with ends of two kinds pushes "Invalid types in glyph range"
\* and adds no glyph; a range of one kind pushes one error per member the
\* font lacks and appends the glyphs of the members it has, in range order.
C28_GlyphRangeExpansion ==
    [][last'.op = "glyph_class"
          => LET range == call'.args[2]
                 before == IF call'.args[1] THEN 1 ELSE 0
                 added == SubSeq(call'.ret, before + 1, Len(call'.ret))
             IN /\ IsPrefix(errors, errors')
                /\ Len(call'.ret) >= before
                /\ IF range.start.kind # range.end.kind
                   THEN /\ NewErrors = <<DiagError("Invalid types in glyph range")>>
                        /\ added = <<>>
                   ELSE /\ Len(NewErrors) = Cardinality(RangeMembersInFont(FALSE))
                        /\ \A i \in 1..Len(NewErrors) : IsError(NewErrors[i])
                        /\ Len(added) = Cardinality(RangeMembersInFont(TRUE))
                        /\ \A n \in RangeMembersInFont(TRUE) :
                              added[Cardinality({m \in RangeMembersInFont(TRUE) : m <= n})]
                                 = GlyphMap[<<range.start.kind, n>>]]_vars

\* [\1 \2-\4]: CID 3 is not in the font, so one error, and the glyphs of
\* CIDs 2 and 4 follow the glyph of CID 1
C28_Witness ==
    /\ last.op = "glyph_class"
    /\ call.args = <<TRUE, [start |-> [kind |-> "Cid", n |-> 2], end |-> [kind |-> "Cid", n |-> 4]]>>
    /\ call.ret = <<1, 2, 4>>
    /\ errors = <<DiagError("Range member '3' does not exist in font")>>

\* C23: mark attachment class ids are handed out 1, 2, 3, ... in the order in
\* which distinct glyph sets are first seen: a step adds at most one set, the
\* new set gets the number of sets known before plus one, no two sets share
\* an id, no id already assigned changes, and a lookupflag statement gets the
\* id of the sorted and deduplicated set of the class it wrote.
C23_MarkAttachIdsFromOne ==
    [][LET old == mark_attach_class_id
           new == mark_attach_class_id'
       IN /\ \A k \in DOMAIN old : k \in DOMAIN new /\ new[k] = old[k]
          /\ Cardinality(DOMAIN new \ DOMAIN old) <= 1
          /\ \A k \in DOMAIN new \ DOMAIN old : new[k] = Cardinality(DOMAIN old) + 1
          /\ \A j, k \in DOMAIN new : j # k => new[j] # new[k]
          /\ last'.op = "lookupflag_mark_attachment"
                => /\ SortGlyphs(SeqToSet(call'.args)) \in DOMAIN new
                   /\ call'.ret = new[SortGlyphs(SeqToSet(call'.args))]
                   /\ lookup_flags'.flags = call'.ret * MARK_ATTACHMENT_TYPE_SHIFT]_vars

\* the set {a, b} was seen first, then [b]; [b a] is written now and gets
\* the id of {a, b} again
C23_Witness ==
    /\ last.op = "lookupflag_mark_attachment"
    /\ mark_attach_class_id = [k \in {<<1, 2>>, <<2>>} |-> IF k = <<2>> THEN 2 ELSE 1]
    /\ call.fn = "resolve_mark_attach_class"
    /\ call.args = <<2, 1>>
    /\ call.ret = 1
    /\ lookup_flags.flags = MARK_ATTACHMENT_TYPE_SHIFT

\* the glyphs of the mark classes of the registry
MarkClassGlyphs ==
    UNION {UNION {SeqToSet(mark_classes[n][k].glyphs) : k \in DOMAIN mark_classes[n]} :
              n \in DOMAIN mark_classes}

\* the base glyphs of the mark-to-base rules of the stored lookups
MarkToBaseBases ==
    UNION {{r[2] : r \in {x \in SeqToSet(lookups.gpos[i].rules) : x[1] = "base"}} :
              i \in {j \in DOMAIN lookups.gpos : lookups.gpos[j].kind = "GposType4"}}

\* the glyph classes the GDEF block of the source declared
DeclaredGlyphClasses ==
    IF IsSome(gdef) THEN Unwrap(gdef).glyph_classes ELSE EmptyMap

C22_DeclaredClassesKept ==
    [][last'.op = "finalize"
          => /\ DOMAIN DeclaredGlyphClasses # {}
                  => IsSome(gdef') /\ Unwrap(gdef').glyph_classes = DeclaredGlyphClasses
             /\ IsSome(gdef') => ~GdefIsEmpty(Unwrap(gdef'))
             /\ IsSome(gdef')
                  <=> \/ IsSome(gdef) /\ ~GdefIsEmpty(Unwrap(gdef))
                      \/ MarkClassGlyphs # {}
                      \/ \E i \in DOMAIN lookups.gpos :
                            lookups.gpos[i].kind = "GposType4" /\ lookups.gpos[i].rules # <<>>
                      \/ DOMAIN mark_attach_class_id # {}
                      \/ DOMAIN mark_filter_sets # {}]_vars

\* markClass c @BOT; table GDEF { GlyphClassDef [c], , [a], ; } and
\* pos base d mark @BOT: c stays Base, d gets no class
C22_Witness ==
    /\ last.op = "finalize"
    /\ MarkClassGlyphs = {3}
    /\ MarkToBaseBases = {4}
    /\ IsSome(gdef)
    /\ Unwrap(gdef).glyph_classes = [g \in {1, 3} |-> IF g = 3 THEN "Base" ELSE "Mark"]

====
